---- MODULE Spec2Model ----
(***************************************************************************)
(* Webvisor session recording: the client's batching and delivery pipeline *)
(* (Webvisor), and the structural watcher (DOMRecorder, serializeNode).    *)
(*                                                                         *)
(* Spec      one Webvisor instance: start, stop, channel callbacks, the    *)
(*           periodic timer, unload/visibility flushes, delivery outcomes. *)
(* SpecVisits  Spec plus repeated page views (a new Webvisor instance over *)
(*           the same localStorage) and clearStorage.                      *)
(* SpecDom   a DOMRecorder over a small mutable document.                  *)
(* SpecInput the form watcher (InputRecorder) and the pointer watcher      *)
(*           (InteractionRecorder) over a page with one form field.        *)
(* SpecStore the collector: postEvents and deleteSession over a            *)
(*           PostgresStore, each call a transaction of several statements, *)
(*           calls overlapping.  SpecStoreSerial: one call at a time.      *)
(* SpecNavigation a NavigationRecorder over the page's URL.                *)
(* SpecThrottle   a handler wrapped by throttle(fn, delay).                *)
(* SpecDelivery   one recorded page under a fair flush timer and endpoint. *)
(* SpecReplay     the structure watcher with a remote party replaying it.  *)
(* SpecDomThrowing the structure watcher when handling a record may throw. *)
(* SpecRetention  the collector with its clock and the retention sweep.    *)
(* SpecArchive    the collector with its clock and the read routes.        *)
(* SpecAppend     the collector with its clock, browsers that differ.      *)
(* SpecFiles      the file-based SessionStore, calls overlapping.          *)
(* SpecStopping   one Webvisor instance with its throttled pointer watcher.*)
(***************************************************************************)
EXTENDS Integers, Sequences, FiniteSets, TLC

\* ---------------------------------------------------------------- bounds
\* Events accepted by handleEvent in one behaviour.
MaxEvents == 6
\* Largest configured batchSize.
MaxBatch == 2
\* Deliveries that end in a failure in one behaviour.
MaxFailures == 2
\* Nodes that exist, in the document or detached.
MaxNodes == 4
\* DOM mutations made while the MutationObserver observes.
MaxMutations == 2
\* Requests the collector receives in one behaviour, served one at a time.
MaxCalls == 3
\* Requests the collector receives in one behaviour when requests overlap.
MaxOverlappingCalls == 2
\* Statements of the store that fail in one behaviour.
MaxFaults == 1
\* Requests the collector receives in one behaviour in which time passes.
MaxTimedCalls == 1
\* Retention sweeps in one behaviour.
MaxSweeps == 1
\* Ticks of the collector's clock in one behaviour.
MaxClock == 2
\* Calls of a throttled handler, and ticks of the page's clock, in one behaviour.
MaxThrottledCalls == 3
MaxTicks == 3
\* Events of the largest session getSession is asked for.
MaxLog == 4
\* Calls of storeEvents and deleteSession of the file-based SessionStore in
\* one behaviour.
MaxFileCalls == 2

VARIABLES
    \* ---- browser environment
    url,            \* window.location.href
    storage,        \* localStorage: [sampled, sessionId], "null" when absent
    flushListeners, \* beforeunload / visibilitychange listeners registered by start()
    \* ---- Webvisor instance
    config,         \* [batchSize, samplingRate]
    sessionId,      \* this.sessionId, 0 for null
    isRecording,    \* this.isRecording
    isSampled,      \* this.isSampled
    events,         \* this.events
    sendQueue,      \* this.sendQueue
    batchTimer,     \* this.batchTimer # null
    recorders,      \* "none" | "started" | "stopped": the four capture channels
    navCurrentUrl,  \* NavigationRecorder.currentUrl
    \* ---- asynchronous continuations
    inflight,       \* fetch calls outstanding: set of [batch, sessionId]
    stopAwait,      \* per stop() awaiting its sendBatch: [batch, queued], queued the
                    \* enqueue numbers of the events in sendQueue when stop() flushed
    \* ---- history
    delivered,      \* enqueue numbers of the events acknowledged with success
    requeued,       \* batches put back after a failure, no flush attempted since
    nextSeq,        \* enqueue number of the next accepted event
    nextSid,        \* next value generateSessionId() returns
    failures,       \* deliveries that have failed so far
    ret,            \* the operation that ran last, and what it returned
    \* ---- the document
    childNodes,     \* node -> its children, in document order
    excludeAttr,    \* the elements that carry the exclude attribute
    textContent,    \* character data of the text and comment nodes
    \* ---- DOMRecorder instance
    observer,       \* this.observer # null
    mutationRecords,\* records the MutationObserver has queued for its callback
    nodeIdMap,      \* this.nodeIdMap, 0 where a node has no entry
    nextNodeId,     \* this.nextNodeId
    emitted,        \* the events the last DOMRecorder operation handed to onEvent
    mutations,      \* DOM mutations made while observing
    replica,        \* the tree a remote party has rebuilt from the events
    domOp,          \* the recorder operation or listener that ran last
    \* ---- the form field of the page and its watchers
    privacy,        \* [maskAllInputs, maskSensitiveInputs] given to InputRecorder
    field,          \* the form field's tag name and attributes
    fieldValue,     \* the form field's live value, a sequence of characters
    fieldChecked,   \* the form field's checked state
    inputRecording, \* InputRecorder.isRecording
    interactionRecording, \* InteractionRecorder.isRecording
    eventTarget,    \* e.target of the event dispatched last, 0 before any
    \* ---- the navigation watcher and a throttled handler
    navRecording,   \* NavigationRecorder.isRecording
    clock,          \* Date.now() in the page
    throttleDelay,  \* delay of throttle(fn, delay)
    lastCall,       \* lastCall of the throttled function
    timeoutId,      \* timeoutId of the throttled function, 0 for null
    timers,         \* the page's pending timeouts: [id, due, args]
    nextTimerId,    \* the id the next setTimeout returns
    throttledCalls, \* calls of the throttled function so far
    \* ---- the collector's database: committed rows
    visitors,       \* visitors table: fingerprint -> visit_count, 0 where no row
    sessions,       \* sessions table: rows [sid, eventCount, fingerprint,
                    \* createdAt, updatedAt]
    eventRows,      \* events table: rows [sid, call, k, timestamp], k the place
                    \* in the batch of the call that inserted the row
    \* ---- the collector's requests
    tx,             \* per connection: the request it serves and its open transaction
    calls,          \* requests received so far
    faults,         \* statements that have failed so far
    serial,         \* TRUE when requests are served one at a time
    maxCalls,       \* requests the collector receives in this behaviour
    clients,        \* fingerprints of the browsers that post in this behaviour
    sweeps,         \* runs of cleanup() so far
    now,            \* the collector's clock: Date.now(), CURRENT_TIMESTAMP
    reply,          \* what getSession or listSessions returned, when the last
                    \* step was one of them
    \* ---- history
    committedCalls, \* the storeEvents calls that committed
    committedTotal, \* sid -> events of the committed batches for sid
    deleteCalled,   \* the sids deleteSession has been called for
    \* ---- the file-based SessionStore
    files,          \* storagePath: file path -> the session a file holds, NoFile
                    \* where there is none
    fileOps         \* the calls of storeEvents and deleteSession so far, each
                    \* with its arguments and how far it has come

clientVars == << url, storage, flushListeners, config, sessionId, isRecording, isSampled,
                 events, sendQueue, batchTimer, recorders, navCurrentUrl, inflight,
                 stopAwait, delivered, requeued, nextSeq, nextSid, failures, ret >>

domVars == << childNodes, excludeAttr, textContent, observer, mutationRecords,
              nodeIdMap, nextNodeId, emitted, mutations, replica, domOp >>

formVars == << privacy, field, fieldValue, fieldChecked, inputRecording,
              interactionRecording, eventTarget >>

\* What an operation of the Webvisor instance leaves alone, and what a page
\* script or a DOMRecorder operation leaves alone.
storeVars == << visitors, sessions, eventRows, tx, calls, faults, serial, maxCalls,
               clients, sweeps, now, reply, committedCalls, committedTotal,
               deleteCalled >>

watcherVars == << navRecording, clock, throttleDelay, lastCall, timeoutId, timers,
                  nextTimerId, throttledCalls >>

fileVars == << files, fileOps >>

outsideClient == << domVars, formVars, watcherVars, storeVars, fileVars >>
outsideDom == << clientVars, formVars, watcherVars, storeVars, fileVars >>
outsideStore == << clientVars, domVars, formVars, watcherVars, fileVars >>

vars == << clientVars, domVars, formVars, watcherVars, storeVars, fileVars >>

\* ------------------------------------------------------------ environment
URLs == {"/home", "/admin/users"}

\* config.privacy.excludePages
ExcludePages == {"/admin/.*"}

\* new RegExp(pattern).test(url)
RegExpTest(pattern, u) == pattern = "/admin/.*" /\ u = "/admin/users"

SamplingRates == {0, 100}

\* floor(Math.random() * 100): the two ends of its range
RandomPercents == {0, 99}

Range(s) == {s[i] : i \in 1..Len(s)}

Min(a, b) == IF a <= b THEN a ELSE b

IsPrefix(s, t) == Len(s) <= Len(t) /\ SubSeq(t, 1, Len(s)) = s

\* -------------------------------------------------------------- pipeline
\* The fields handleEvent and sendBatch read and write, as one value, so that
\* the calls start() and stop() make in a row compose.
Pipe ==
    [isRecording |-> isRecording, sessionId |-> sessionId, events |-> events,
     sendQueue |-> sendQueue, inflight |-> inflight, requeued |-> requeued,
     nextSeq |-> nextSeq, batchSize |-> config.batchSize]

SetPipe(p) ==
    /\ isRecording' = p.isRecording
    /\ sessionId' = p.sessionId
    /\ events' = p.events
    /\ sendQueue' = p.sendQueue
    /\ inflight' = p.inflight
    /\ requeued' = p.requeued
    /\ nextSeq' = p.nextSeq

\* sendBatch that posts the whole queue, whatever batchSize is.
SendBatchWholeQueue(p) ==
    IF p.sendQueue = << >> THEN p
    ELSE [p EXCEPT !.sendQueue = << >>,
                   !.inflight = @ \cup {[batch |-> p.sendQueue, sessionId |-> p.sessionId]},
                   !.requeued = {}]

\* sendBatch up to the await of fetch: splice the head off the queue, post it.
SendBatch(p) ==
    IF p.sendQueue = << >> THEN p
    ELSE LET k == Min(Len(p.sendQueue), p.batchSize)
             batch == SubSeq(p.sendQueue, 1, k)
         IN [p EXCEPT !.sendQueue = SubSeq(p.sendQueue, k + 1, Len(p.sendQueue)),
                      !.inflight = @ \cup {[batch |-> batch, sessionId |-> p.sessionId]},
                      !.requeued = {}]

\* handleEvent whose event joins the batches already posted, as it would if a
\* batch were the queue itself and not what splice returned.
HandleEventJoinsInflight(p, type) ==
    IF ~p.isRecording THEN p
    ELSE LET event == [n |-> p.nextSeq, type |-> type, sessionId |-> p.sessionId]
         IN [p EXCEPT !.events = Append(@, event),
                      !.inflight = {[d EXCEPT !.batch = Append(@, event)] : d \in @},
                      !.sendQueue = IF p.inflight = {} THEN Append(@, event) ELSE @,
                      !.nextSeq = @ + 1]

\* handleEvent without its isRecording guard.
HandleEventWhenStopped(p, type) ==
    LET event == [n |-> p.nextSeq, type |-> type, sessionId |-> p.sessionId]
        q == [p EXCEPT !.events = Append(@, event),
                       !.sendQueue = Append(@, event),
                       !.nextSeq = @ + 1]
    IN IF Len(q.sendQueue) >= q.batchSize THEN SendBatch(q) ELSE q

\* handleEvent: push on events and sendQueue, flush when the queue is long enough.
HandleEvent(p, type) ==
    IF ~p.isRecording THEN p
    ELSE LET event == [n |-> p.nextSeq, type |-> type, sessionId |-> p.sessionId]
             q == [p EXCEPT !.events = Append(@, event),
                            !.sendQueue = Append(@, event),
                            !.nextSeq = @ + 1]
         IN IF Len(q.sendQueue) >= q.batchSize THEN SendBatch(q) ELSE q

\* --------------------------------------------------------------- sampling
\* shouldSample without the lookup of the stored decision: rolls on every call.
ShouldSampleRerolls(stored, rate, random) ==
    LET sampled == random < rate
    IN [result |-> sampled, stored |-> IF sampled THEN "true" ELSE "false"]

\* shouldSample: [result, stored], stored being localStorage's wv_sampled after it.
ShouldSample(stored, rate, random) ==
    IF stored # "null"
    THEN [result |-> (stored = "true"), stored |-> stored]
    ELSE LET sampled == random < rate
         IN [result |-> sampled, stored |-> IF sampled THEN "true" ELSE "false"]

\* isPageExcluded that matches no page.
IsPageExcludedNever(u) == FALSE

IsPageExcluded(u) == \E pattern \in ExcludePages : RegExpTest(pattern, u)

\* NavigationRecorder.isExcludedPage, over the same patterns
IsExcludedPage(u) == \E pattern \in ExcludePages : RegExpTest(pattern, u)

\* start() without its "already recording" guard.
AlreadyRecordingUnchecked == FALSE

AlreadyRecording == isRecording

NotRecording == ~isRecording

\* ------------------------------------------------------------------ Init
InitClient ==
    /\ url \in URLs
    /\ storage = [sampled |-> "null", sessionId |-> 0]
    /\ flushListeners = FALSE
    /\ config \in [batchSize : 1..MaxBatch, samplingRate : SamplingRates]
    /\ sessionId = 0
    /\ isRecording = FALSE
    /\ isSampled = FALSE
    /\ events = << >>
    /\ sendQueue = << >>
    /\ batchTimer = FALSE
    /\ recorders = "none"
    /\ navCurrentUrl = ""
    /\ inflight = {}
    /\ stopAwait = {}
    /\ delivered = {}
    /\ requeued = {}
    /\ nextSeq = 1
    /\ nextSid = 1
    /\ failures = 0
    /\ ret = [op |-> "new", val |-> "none"]

\* ============================================================ document
Nodes == 1..MaxNodes

\* document.documentElement
Root == 1

\* node.nodeType: the root and two more elements, the others text and comment
\* nodes in turn.
NodeType(n) ==
    IF n <= Root + 2 THEN "ELEMENT_NODE"
    ELSE IF n % 2 = 0 THEN "TEXT_NODE" ELSE "COMMENT_NODE"

\* The form field of the page.
FieldNode == 3

\* node.nodeName
NodeName(n) ==
    IF n = Root THEN "HTML"
    ELSE IF n = FieldNode THEN field.tagName
    ELSE IF NodeType(n) = "ELEMENT_NODE" THEN "DIV"
    ELSE IF NodeType(n) = "TEXT_NODE" THEN "#text" ELSE "#comment"

Elements == {n \in Nodes : NodeType(n) = "ELEMENT_NODE"}

CharacterData == Nodes \ Elements

TextValues == {"a", "b"}

\* config.privacy.excludeAttribute
ExcludeAttribute == "data-ym-disable"

\* node.parentElement, 0 for null
ParentElement(n) ==
    IF \E p \in Nodes : n \in Range(childNodes[p])
    THEN CHOOSE p \in Nodes : n \in Range(childNodes[p])
    ELSE 0

RECURSIVE Descendants(_)
\* element.querySelectorAll('*') with the text and comment nodes: all nodes below n
Descendants(n) ==
    UNION {{c} \cup Descendants(c) : c \in Range(childNodes[n])}

\* The nodes of the document: the root's subtree.
DocumentNodes == {Root} \cup Descendants(Root)

\* serializeNode's null
NullNode == [type |-> "null"]

InitDocument ==
    /\ childNodes = [n \in Nodes |-> << >>]
    /\ excludeAttr = {}
    /\ textContent = [n \in CharacterData |-> "a"]
    /\ observer = FALSE
    /\ mutationRecords = << >>
    /\ nodeIdMap = [n \in Nodes |-> 0]
    /\ nextNodeId = 1
    /\ emitted = << >>
    /\ mutations = 0
    /\ replica = NullNode
    /\ domOp = "new"

\* ---------------------------------------------------------- page scripts
\* What the MutationObserver does with a change: queue a record when it
\* observes and the target is in the observed subtree.
Observes(target) == observer /\ target \in DocumentNodes

\* A page script's change: the record it queues, if any. It runs between two
\* DOMRecorder operations, so what the last one emitted is consumed.
Queue(record) ==
    /\ IF observer
       THEN /\ mutations < MaxMutations
            /\ mutations' = mutations + 1
       ELSE mutations' = mutations
    /\ mutationRecords' = IF Observes(record.target)
                          THEN Append(mutationRecords, record)
                          ELSE mutationRecords
    /\ emitted' = << >>
    /\ replica' = replica
    /\ domOp' = "script"

\* parent.appendChild(child), child a detached node or subtree
AppendChild ==
    \E parent \in Elements, child \in Nodes \ {Root} :
        /\ ParentElement(child) = 0
        /\ parent \notin {child} \cup Descendants(child)
        /\ childNodes' = [childNodes EXCEPT ![parent] = Append(@, child)]
        /\ Queue([type |-> "childList", target |-> parent,
                  addedNodes |-> << child >>, removedNodes |-> << >>])
        /\ UNCHANGED << excludeAttr, textContent, observer, nodeIdMap, nextNodeId >>
        /\ UNCHANGED outsideDom

Remove(s, x) == SelectSeq(s, LAMBDA y : y # x)

\* child.remove()
RemoveChild ==
    \E child \in Nodes :
        /\ ParentElement(child) # 0
        /\ LET parent == ParentElement(child)
           IN  /\ childNodes' = [childNodes EXCEPT ![parent] = Remove(@, child)]
               /\ Queue([type |-> "childList", target |-> parent,
                         addedNodes |-> << >>, removedNodes |-> << child >>])
        /\ UNCHANGED << excludeAttr, textContent, observer, nodeIdMap, nextNodeId >>
        /\ UNCHANGED outsideDom

\* element.toggleAttribute(excludeAttribute)
ToggleExcludeAttribute ==
    \E element \in Elements :
        /\ excludeAttr' = IF element \in excludeAttr
                          THEN excludeAttr \ {element}
                          ELSE excludeAttr \cup {element}
        /\ Queue([type |-> "attributes", target |-> element,
                  attributeName |-> ExcludeAttribute,
                  oldValue |-> IF element \in excludeAttr THEN "" ELSE "null"])
        /\ UNCHANGED << childNodes, textContent, observer, nodeIdMap, nextNodeId >>
        /\ UNCHANGED outsideDom

\* node.data = value on a text or comment node
SetData ==
    \E node \in CharacterData, value \in TextValues :
        /\ observer
        /\ value # textContent[node]
        /\ textContent' = [textContent EXCEPT ![node] = value]
        /\ Queue([type |-> "characterData", target |-> node,
                  oldValue |-> textContent[node]])
        /\ UNCHANGED << childNodes, excludeAttr, observer, nodeIdMap, nextNodeId >>
        /\ UNCHANGED outsideDom

\* ------------------------------------------------------------ serializeNode
\* element.attributes as name -> value
Attributes(n) == IF n \in excludeAttr THEN {<< ExcludeAttribute, "" >>} ELSE {}

\* element.value, element.selectedIndex: elements other than the field have none.
ElementValue(n) == IF n = FieldNode THEN fieldValue ELSE << >>

\* What serializeNode records of an element besides its children: type, name,
\* attributes, and the live value of an input or textarea, the selected index
\* of a select (the one option of the field is the selected one).
SerializeElement(n) ==
    LET base == [type |-> NodeType(n), name |-> NodeName(n), attrs |-> Attributes(n)]
    IN  IF NodeName(n) \in {"INPUT", "TEXTAREA"}
        THEN [type |-> base.type, name |-> base.name, attrs |-> base.attrs,
              value |-> ElementValue(n)]
        ELSE IF NodeName(n) = "SELECT"
        THEN [type |-> base.type, name |-> base.name, attrs |-> base.attrs,
              selectedIndex |-> 0]
        ELSE base

\* r with the key children
WithChildren(r, kids) ==
    [k \in DOMAIN r \cup {"children"} |-> IF k = "children" THEN kids ELSE r[k]]

RECURSIVE SerializeNode(_, _)
\* serializeNode(node, excludedElements): null or the serialized tree. The
\* attrs and children keys, left out by the code when empty, are empty here.
SerializeNode(node, excludedElements) ==
    IF NodeType(node) = "ELEMENT_NODE" /\ node \in excludedElements THEN NullNode
    ELSE IF NodeType(node) # "ELEMENT_NODE"
    THEN [type |-> NodeType(node), name |-> NodeName(node), text |-> textContent[node]]
    ELSE LET kids == [i \in 1..Len(childNodes[node]) |->
                         SerializeNode(childNodes[node][i], excludedElements)]
         IN WithChildren(SerializeElement(node),
                         SelectSeq(kids, LAMBDA k : k.type # "null"))

\* --------------------------------------------------------------- DOMRecorder
\* isExcluded(element): the element or an ancestor has the exclude attribute.
RECURSIVE IsExcluded(_)
IsExcluded(element) ==
    IF element = 0 \/ NodeType(element) # "ELEMENT_NODE" THEN FALSE
    ELSE IF element \in excludeAttr THEN TRUE
    ELSE IsExcluded(ParentElement(element))

\* captureSnapshot without the collection of the excluded elements.
ExcludedElementsNone == {}

\* captureSnapshot's excludedElements: every element of the document with the
\* exclude attribute, and every element below one.
ExcludedElements ==
    LET marked == {e \in DocumentNodes \cap Elements : e \in excludeAttr}
    IN marked \cup {c \in Elements : \E e \in marked : c \in Descendants(e)}

CaptureSnapshot ==
    /\ ~observer
    /\ emitted' = << [type |-> "dom_snapshot",
                      html |-> SerializeNode(Root, ExcludedElements)] >>
    /\ domOp' = "captureSnapshot"
    /\ UNCHANGED << childNodes, excludeAttr, textContent, observer, mutationRecords,
                    nodeIdMap, nextNodeId, mutations, replica >>
    /\ UNCHANGED outsideDom

\* DOMRecorder.start
StartObserver ==
    /\ ~observer
    /\ observer' = TRUE
    /\ domOp' = "start"
    /\ emitted' = << >>
    /\ UNCHANGED << childNodes, excludeAttr, textContent, mutationRecords,
                    nodeIdMap, nextNodeId, mutations, replica >>
    /\ UNCHANGED outsideDom

\* getNodeId that hands out the counter's value without advancing the counter.
GetNodeIdKeepsCounter(r, node) ==
    IF r.map[node] = 0
    THEN [map |-> [r.map EXCEPT ![node] = r.next], next |-> r.next, id |-> r.next]
    ELSE [map |-> r.map, next |-> r.next, id |-> r.map[node]]

\* getNodeId on a recorder state r = [map, next]: [map, next, id]
GetNodeId(r, node) ==
    IF r.map[node] = 0
    THEN [map |-> [r.map EXCEPT ![node] = r.next], next |-> r.next + 1, id |-> r.next]
    ELSE [map |-> r.map, next |-> r.next, id |-> r.map[node]]

RECURSIVE GetNodeIds(_, _)
\* getNodeId over a node list, in order: [map, next, ids]
GetNodeIds(r, nodes) ==
    IF nodes = << >> THEN [map |-> r.map, next |-> r.next, ids |-> << >>]
    ELSE LET first == GetNodeId(r, Head(nodes))
             rest == GetNodeIds(first, Tail(nodes))
         IN [map |-> rest.map, next |-> rest.next, ids |-> << first.id >> \o rest.ids]

\* tagName.toLowerCase()
ToLowerCase(name) ==
    CASE name = "HTML" -> "html"
      [] name = "DIV" -> "div"
      [] name = "INPUT" -> "input"
      [] name = "TEXTAREA" -> "textarea"
      [] name = "SELECT" -> "select"
      [] OTHER -> name

RECURSIVE SelectorParts(_)
\* The loop of getSelector from current upwards: one part per element. The page's
\* elements have no id, no class and no sibling of their own tag name, so a part
\* is the lowercase tag name; no element has five ancestors.
SelectorParts(current) ==
    IF current = 0 \/ NodeType(current) # "ELEMENT_NODE" THEN << >>
    ELSE SelectorParts(ParentElement(current)) \o << ToLowerCase(NodeName(current)) >>

\* getSelector(element): the parts that ' > ' joins, none ('') for a node that is
\* not an element.
GetSelector(element) ==
    IF NodeType(element) # "ELEMENT_NODE" THEN << >> ELSE SelectorParts(element)

\* The event of one mutation record, and the recorder state after it.
MutationEvent(r, mutation) ==
    LET target == GetNodeId(r, mutation.target)
    IN  IF mutation.type = "childList"
        THEN LET kept == SelectSeq(mutation.addedNodes,
                             LAMBDA n : NodeType(n) # "ELEMENT_NODE" \/ ~IsExcluded(n))
                 added == GetNodeIds(target, kept)
                 removed == GetNodeIds(added, mutation.removedNodes)
             IN [map |-> removed.map, next |-> removed.next,
                 event |-> [type |-> "dom_mutation", targetId |-> target.id,
                            targetSelector |-> GetSelector(mutation.target),
                            mutationType |-> "CHILD_LIST",
                            addedNodes |-> [i \in 1..Len(kept) |->
                                [id |-> added.ids[i], node |-> SerializeNode(kept[i], {})]],
                            removedNodes |-> removed.ids]]
        ELSE IF mutation.type = "attributes"
        THEN [map |-> target.map, next |-> target.next,
              event |-> [type |-> "dom_mutation", targetId |-> target.id,
                         targetSelector |-> GetSelector(mutation.target),
                         mutationType |-> "ATTRIBUTES",
                         attributeName |-> mutation.attributeName,
                         oldValue |-> mutation.oldValue,
                         newValue |-> IF mutation.target \in excludeAttr
                                      THEN "" ELSE "null"]]
        ELSE [map |-> target.map, next |-> target.next,
              event |-> [type |-> "dom_mutation", targetId |-> target.id,
                         targetSelector |-> GetSelector(mutation.target),
                         mutationType |-> "CHARACTER_DATA",
                         oldValue |-> mutation.oldValue,
                         newValue |-> textContent[mutation.target]]]

\* processMutations skips a record whose target is an excluded element.
SkipsMutation(mutation) ==
    NodeType(mutation.target) = "ELEMENT_NODE" /\ IsExcluded(mutation.target)

RECURSIVE ProcessRecords(_, _)
\* The loop of processMutations: [map, next, events]
ProcessRecords(r, records) ==
    IF records = << >> THEN [map |-> r.map, next |-> r.next, events |-> << >>]
    ELSE IF SkipsMutation(Head(records)) THEN ProcessRecords(r, Tail(records))
    ELSE LET one == MutationEvent(r, Head(records))
             rest == ProcessRecords(one, Tail(records))
         IN [map |-> rest.map, next |-> rest.next,
             events |-> << one.event >> \o rest.events]

\* The MutationObserver callback: processMutations on the queued records.
MutationCallback ==
    /\ mutationRecords # << >>
    /\ LET done == ProcessRecords([map |-> nodeIdMap, next |-> nextNodeId],
                                  mutationRecords)
       IN  /\ nodeIdMap' = done.map
           /\ nextNodeId' = done.next
           /\ emitted' = done.events
    /\ mutationRecords' = << >>
    /\ domOp' = "processMutations"
    /\ UNCHANGED << childNodes, excludeAttr, textContent, observer, mutations >>
    /\ UNCHANGED outsideDom

ProcessMutations ==
    /\ MutationCallback
    /\ UNCHANGED replica

\* The MutationObserver callback when the handling of record k throws, in
\* getSelector(mutation.target), after getNodeId(mutation.target): processMutations
\* has no try, nor has the callback, so the exception leaves the callback and the
\* events array, handed to onEvent only after the loop, is lost with it. The
\* observer stays connected.
ThrowingCallback ==
    \E k \in 1..Len(mutationRecords) :
        /\ ~SkipsMutation(mutationRecords[k])
        /\ LET before == ProcessRecords([map |-> nodeIdMap, next |-> nextNodeId],
                                        SubSeq(mutationRecords, 1, k - 1))
               target == GetNodeId(before, mutationRecords[k].target)
           IN  /\ nodeIdMap' = target.map
               /\ nextNodeId' = target.next
        /\ emitted' = << >>
        /\ mutationRecords' = << >>
        /\ domOp' = "uncaught exception"
        /\ UNCHANGED << childNodes, excludeAttr, textContent, observer, mutations,
                        replica >>
        /\ UNCHANGED outsideDom

\* ------------------------------------------------------------------ replay
\* The remote party that rebuilds the page from the events alone. It starts from
\* the tree of the snapshot event and applies the mutation events in order. It
\* finds the target of an event by an identifier it has met before (a target it
\* located, the root of an added node), otherwise by the selector, as
\* document.querySelector does; an event whose target it cannot find changes
\* nothing. It appends added nodes, the events saying nothing of their place.
With(r, key, val) == [k \in DOMAIN r \cup {key} |-> IF k = key THEN val ELSE r[k]]

Kids(t) == IF "children" \in DOMAIN t THEN t.children ELSE << >>

\* The identifier the replayer has learnt for a node of its tree, 0 for none.
IdOf(t) == IF "id" \in DOMAIN t THEN t.id ELSE 0

RECURSIVE Paths(_)
\* The nodes of tree t, each as the child indices that lead to it from the root.
Paths(t) ==
    {<< >>} \cup UNION {{<< i >> \o p : p \in Paths(Kids(t)[i])} : i \in 1..Len(Kids(t))}

RECURSIVE NodeAt(_, _)
NodeAt(t, p) == IF p = << >> THEN t ELSE NodeAt(Kids(t)[Head(p)], Tail(p))

RECURSIVE ReplaceAt(_, _, _)
ReplaceAt(t, p, new) ==
    IF p = << >> THEN new
    ELSE With(t, "children",
              [Kids(t) EXCEPT ![Head(p)] = ReplaceAt(@, Tail(p), new)])

\* The selector parts of the nodes on the way from the root to the node at p.
PartsOn(t, p) ==
    [i \in 1..(Len(p) + 1) |-> ToLowerCase(NodeAt(t, SubSeq(p, 1, i - 1)).name)]

\* The element at p is one the selector (parts joined by the child combinator)
\* matches.
SelectorMatches(t, p, selector) ==
    /\ selector # << >>
    /\ Len(selector) <= Len(p) + 1
    /\ NodeAt(t, p).type = "ELEMENT_NODE"
    /\ SubSeq(PartsOn(t, p), Len(p) + 2 - Len(selector), Len(p) + 1) = selector

\* Where the replayer finds the target of an event: a set of paths.
Locate(t, ev) ==
    LET byId == {p \in Paths(t) : IdOf(NodeAt(t, p)) = ev.targetId}
    IN  IF byId # {} THEN byId
        ELSE {p \in Paths(t) : SelectorMatches(t, p, ev.targetSelector)}

\* The tree after one mutation event.
ApplyEvent(t, ev) ==
    IF Locate(t, ev) = {} THEN t
    ELSE LET p == CHOOSE q \in Locate(t, ev) : TRUE
             n == With(NodeAt(t, p), "id", ev.targetId)
             changed ==
                 IF ev.mutationType = "CHILD_LIST"
                 THEN With(n, "children",
                           SelectSeq(Kids(n), LAMBDA c :
                               IdOf(c) = 0 \/ IdOf(c) \notin Range(ev.removedNodes))
                           \o [i \in 1..Len(ev.addedNodes) |->
                                  With(ev.addedNodes[i].node, "id", ev.addedNodes[i].id)])
                 ELSE IF ev.mutationType = "ATTRIBUTES"
                 THEN With(n, "attrs",
                           {a \in n.attrs : a[1] # ev.attributeName}
                           \cup (IF ev.newValue = "null" THEN {}
                                 ELSE {<< ev.attributeName, ev.newValue >>}))
                 ELSE With(n, "text", ev.newValue)
         IN ReplaceAt(t, p, changed)

RECURSIVE ApplyEvents(_, _)
ApplyEvents(t, evs) ==
    IF evs = << >> THEN t ELSE ApplyEvents(ApplyEvent(t, Head(evs)), Tail(evs))

RECURSIVE WithoutIds(_)
\* The rebuilt tree as a serialized tree: the replayer's identifiers left out.
WithoutIds(t) ==
    LET r == [k \in DOMAIN t \ {"id"} |-> t[k]]
    IN  IF "children" \in DOMAIN r
        THEN With(r, "children", [i \in 1..Len(r.children) |-> WithoutIds(r.children[i])])
        ELSE r

\* Webvisor.start: captureSnapshot(), then domRecorder.start(), in one turn; the
\* remote party starts from the snapshot.
StartRecording ==
    /\ ~observer
    /\ observer' = TRUE
    /\ emitted' = << [type |-> "dom_snapshot",
                      html |-> SerializeNode(Root, ExcludedElements)] >>
    /\ replica' = SerializeNode(Root, ExcludedElements)
    /\ domOp' = "startRecording"
    /\ UNCHANGED << childNodes, excludeAttr, textContent, mutationRecords,
                    nodeIdMap, nextNodeId, mutations >>
    /\ UNCHANGED outsideDom

\* The MutationObserver callback, its events replayed by the remote party.
ReplayedCallback ==
    /\ MutationCallback
    /\ replica' = ApplyEvents(replica, emitted')

\* ========================================================= form watcher
\* Date.now() when the page's scripts start, and the delays throttle is used
\* with (mouseThrottle, scrollThrottle, resize), in ticks of the clock.
StartTime == 2
Delays == {1, 2}

\* throttle(fn, delay): lastCall = 0, timeoutId = null; no timeout is pending.
InitThrottled ==
    /\ clock = StartTime
    /\ lastCall = 0
    /\ timeoutId = 0
    /\ timers = {}
    /\ nextTimerId = 1
    /\ throttledCalls = 0

\* new NavigationRecorder(options), and a throttled handler.
InitWatchers ==
    /\ navRecording = FALSE
    /\ throttleDelay = 1
    /\ InitThrottled

\* maskValue caps the mask at this many characters.
MaskLimit == 20

\* SENSITIVE_INPUT_TYPES
SensitiveInputTypes ==
    {"password", "email", "tel", "credit-card", "cc-number", "cc-exp", "cc-csc"}

\* SENSITIVE_NAME_PATTERNS, each /.../i
SensitiveNamePatterns ==
    {"password", "passwd", "credit", "card", "cvv", "cvc", "ssn", "social.*security",
     "secret", "token"}

\* The attribute values that occur on the page's form field.
InputTypes == {"text", "password", "checkbox"}
Autocompletes == {"", "billing cc-exp"}
Names == {"q", "user_Password"}
Placeholders == {"", "CardHolder"}

\* autocomplete.includes(t), over Autocompletes
Includes(autocomplete, t) == autocomplete = "billing cc-exp" /\ t = "cc-exp"

\* pattern.test(s) for a case-insensitive pattern, over Names and Placeholders
PatternTest(pattern, s) ==
    \/ pattern = "password" /\ s = "user_Password"
    \/ pattern = "card" /\ s = "CardHolder"

\* The form fields a page is given: an input, a textarea or a select, with at
\* most one of the attributes that mark it sensitive, with or without data-ym-mask.
Fields ==
    {f \in [tagName : {"INPUT", "TEXTAREA", "SELECT"}, type : InputTypes \cup {""},
            autocomplete : Autocompletes, name : Names, id : {""},
            placeholder : Placeholders, mask : BOOLEAN] :
        /\ (f.tagName = "INPUT") = (f.type # "")
        /\ f.tagName # "INPUT" => f.autocomplete = "" /\ f.placeholder = ""
        /\ Cardinality({k \in {"type", "autocomplete", "name", "placeholder"} :
                           f[k] \notin {"", "text", "checkbox", "q"}}) <= 1}

PlainField ==
    [tagName |-> "INPUT", type |-> "text", autocomplete |-> "", name |-> "q",
     id |-> "", placeholder |-> "", mask |-> FALSE]

\* The attributes shouldMask reads, of any element of the page.
Element(n) ==
    IF n = FieldNode THEN field
    ELSE [tagName |-> NodeName(n), type |-> "", autocomplete |-> "", name |-> "",
          id |-> "", placeholder |-> "", mask |-> FALSE]

\* The values a user gives the field: none, a short one, one longer than the mask.
Values == {<< >>, << "p", "w" >>, [i \in 1..(MaskLimit + 1) |-> "x"]}

\* new InputRecorder(options), new InteractionRecorder(options), on a page
\* whose form field is still empty.
InitForm ==
    /\ fieldValue = << >>
    /\ fieldChecked = FALSE
    /\ inputRecording = FALSE
    /\ interactionRecording = FALSE
    /\ eventTarget = 0

\* InputRecorder.isExcluded that looks at the element only, not at its ancestors.
InputIsExcludedSelfOnly(element) ==
    IF element = 0 THEN FALSE
    ELSE element \in excludeAttr

\* InputRecorder.isExcluded
RECURSIVE InputIsExcluded(_)
InputIsExcluded(element) ==
    IF element = 0 THEN FALSE
    ELSE IF NodeType(element) # "ELEMENT_NODE" THEN FALSE
    ELSE IF element \in excludeAttr THEN TRUE
    ELSE InputIsExcluded(ParentElement(element))

\* InteractionRecorder.isExcluded
RECURSIVE InteractionIsExcluded(_)
InteractionIsExcluded(element) ==
    IF element = 0 \/ NodeType(element) # "ELEMENT_NODE" THEN FALSE
    ELSE IF element \in excludeAttr THEN TRUE
    ELSE InteractionIsExcluded(ParentElement(element))

\* InputRecorder.shouldMask
ShouldMask(element) ==
    IF privacy.maskAllInputs THEN TRUE
    ELSE IF ~privacy.maskSensitiveInputs THEN FALSE
    ELSE IF /\ element.tagName = "INPUT"
            /\ \/ element.type \in SensitiveInputTypes
               \/ \E t \in SensitiveInputTypes : Includes(element.autocomplete, t)
    THEN TRUE
    ELSE IF \E pattern \in SensitiveNamePatterns :
                \/ PatternTest(pattern, element.name)
                \/ PatternTest(pattern, element.id)
                \/ PatternTest(pattern, element.placeholder)
    THEN TRUE
    ELSE element.mask

\* InputRecorder.maskValue: '*'.repeat(Math.min(value.length, 20))
MaskValue(v) ==
    IF v = << >> THEN << >>
    ELSE [i \in 1..Min(Len(v), MaskLimit) |-> "*"]

\* InputRecorder.start
InputRecorderStart ==
    /\ ~inputRecording
    /\ inputRecording' = TRUE
    /\ domOp' = "inputStart"
    /\ emitted' = << >>
    /\ UNCHANGED << privacy, field, fieldValue, fieldChecked, interactionRecording,
                    eventTarget >>
    /\ UNCHANGED << childNodes, excludeAttr, textContent, observer, mutationRecords,
                    nodeIdMap, nextNodeId, mutations, replica >>
    /\ UNCHANGED << clientVars, watcherVars, storeVars, fileVars >>

\* InteractionRecorder.start
InteractionRecorderStart ==
    /\ ~interactionRecording
    /\ interactionRecording' = TRUE
    /\ domOp' = "interactionStart"
    /\ emitted' = << >>
    /\ UNCHANGED << privacy, field, fieldValue, fieldChecked, inputRecording, eventTarget >>
    /\ UNCHANGED << childNodes, excludeAttr, textContent, observer, mutationRecords,
                    nodeIdMap, nextNodeId, mutations, replica >>
    /\ UNCHANGED << clientVars, watcherVars, storeVars, fileVars >>

\* The elements an event can be dispatched on so that document's listeners see it.
EventTargets == DocumentNodes \cap Elements

\* What a listener leaves alone.
listenerFrame == << privacy, field, inputRecording, interactionRecording, childNodes,
                    excludeAttr, textContent, observer, mutationRecords, nodeIdMap,
                    nextNodeId, mutations, replica, clientVars, watcherVars, storeVars, fileVars >>

\* handlers.input: the user edits an element; the field's value changes when
\* the field is the target.
InputEvent ==
    \E t \in EventTargets, v \in Values :
        /\ inputRecording
        /\ eventTarget' = t
        /\ fieldValue' = IF t = FieldNode THEN v ELSE fieldValue
        /\ fieldChecked' = fieldChecked
        /\ domOp' = "input"
        /\ emitted' =
              IF InputIsExcluded(t) THEN << >>
              ELSE IF NodeName(t) \notin {"INPUT", "TEXTAREA"} THEN << >>
              ELSE LET isMasked == ShouldMask(Element(t))
                       live == IF t = FieldNode THEN v ELSE << >>
                   IN << [type |-> "input", selector |-> t, tagName |-> NodeName(t),
                          inputType |-> IF NodeName(t) = "INPUT"
                                        THEN Element(t).type ELSE "textarea",
                          value |-> IF isMasked THEN MaskValue(live) ELSE live,
                          masked |-> isMasked] >>
        /\ UNCHANGED listenerFrame

\* handlers.change: a select gets another option, a checkbox or radio is toggled.
ChangeEvent ==
    \E t \in EventTargets, v \in Values :
        /\ inputRecording
        /\ eventTarget' = t
        /\ fieldValue' = IF t = FieldNode /\ field.tagName = "SELECT" THEN v
                       ELSE fieldValue
        /\ fieldChecked' = IF t = FieldNode /\ field.type = "checkbox"
                         THEN ~fieldChecked ELSE fieldChecked
        /\ t = FieldNode /\ field.tagName # "SELECT" => v = fieldValue
        /\ t # FieldNode => v = << >>
        /\ domOp' = "change"
        /\ emitted' =
              IF InputIsExcluded(t) THEN << >>
              ELSE IF NodeName(t) = "SELECT"
              THEN << [type |-> "input", selector |-> t, tagName |-> "SELECT",
                       selectedIndex |-> 0, value |-> v, selectedText |-> v] >>
              ELSE IF NodeName(t) = "INPUT" /\ Element(t).type \in {"checkbox", "radio"}
              THEN << [type |-> "input", selector |-> t, tagName |-> "INPUT",
                       inputType |-> Element(t).type, checked |-> fieldChecked',
                       value |-> v, name |-> Element(t).name] >>
              ELSE << >>
        /\ UNCHANGED listenerFrame

\* handlers.focus and handlers.blur
FocusBlurEvent ==
    \E t \in EventTargets, action \in {"focus", "blur"} :
        /\ inputRecording
        /\ eventTarget' = t
        /\ domOp' = action
        /\ emitted' =
              IF InputIsExcluded(t) THEN << >>
              ELSE IF NodeName(t) \notin {"INPUT", "TEXTAREA", "SELECT"} THEN << >>
              ELSE << [type |-> "input", selector |-> t, tagName |-> NodeName(t),
                       action |-> action] >>
        /\ UNCHANGED << fieldValue, fieldChecked >>
        /\ UNCHANGED listenerFrame

\* handlers.mouseClick
ClickEvent ==
    \E t \in EventTargets :
        /\ interactionRecording
        /\ eventTarget' = t
        /\ domOp' = "click"
        /\ emitted' =
              IF InteractionIsExcluded(t) THEN << >>
              ELSE << [type |-> "mouse_click", selector |-> t, tagName |-> NodeName(t)] >>
        /\ UNCHANGED << fieldValue, fieldChecked >>
        /\ UNCHANGED listenerFrame

\* ==================================================== navigation watcher
\* The URLs the page can move to, and what makes the URL change.
Pages == URLs \cup {"/about"}
Triggers == {"popstate", "pushState", "replaceState", "hashchange"}

\* What an operation of the NavigationRecorder leaves alone.
navigationFrame ==
    << storage, flushListeners, config, sessionId, isRecording, isSampled, events,
       sendQueue, batchTimer, recorders, inflight, stopAwait, delivered, requeued,
       nextSeq, nextSid, failures, ret, childNodes, excludeAttr, textContent,
       observer, mutationRecords, nodeIdMap, nextNodeId, mutations, replica, formVars, clock,
       throttleDelay, lastCall, timeoutId, timers, nextTimerId, throttledCalls,
       storeVars, fileVars >>

\* NavigationRecorder.start
NavigationRecorderStart ==
    /\ ~navRecording
    /\ navRecording' = TRUE
    /\ domOp' = "navigationStart"
    /\ emitted' = << >>
    /\ UNCHANGED << url, navCurrentUrl >>
    /\ UNCHANGED navigationFrame

\* NavigationRecorder.recordPageLoad
RecordPageLoad ==
    /\ navCurrentUrl' = url
    /\ emitted' = IF IsExcludedPage(url) THEN << >>
                  ELSE << [type |-> "page_load", url |-> url] >>
    /\ domOp' = "recordPageLoad"
    /\ UNCHANGED << url, navRecording >>
    /\ UNCHANGED navigationFrame

\* NavigationRecorder.recordTransition(trigger) with window.location.href =
\* newUrl: this.currentUrl after it, and what it hands to onEvent.
RecordTransition(trigger, newUrl, currentUrl) ==
    IF newUrl = currentUrl \/ IsExcludedPage(newUrl)
    THEN [currentUrl |-> currentUrl, emitted |-> << >>]
    ELSE [currentUrl |-> newUrl,
          emitted |-> << [type |-> "page_transition", trigger |-> trigger,
                          from |-> currentUrl, to |-> newUrl] >>]

\* history.pushState or replaceState is called, or popstate or hashchange is
\* dispatched (hashchange only when the URL has changed); a started watcher
\* runs recordTransition.
UrlChange ==
    \E trigger \in Triggers, newUrl \in Pages :
        /\ trigger = "hashchange" => newUrl # url
        /\ url' = newUrl
        /\ domOp' = trigger
        /\ IF navRecording
           THEN LET r == RecordTransition(trigger, newUrl, navCurrentUrl)
                IN /\ navCurrentUrl' = r.currentUrl
                   /\ emitted' = r.emitted
           ELSE /\ emitted' = << >>
                /\ UNCHANGED navCurrentUrl
        /\ UNCHANGED navRecording
        /\ UNCHANGED navigationFrame

\* NavigationRecorder.stop
NavigationRecorderStop ==
    /\ navRecording
    /\ navRecording' = FALSE
    /\ domOp' = "navigationStop"
    /\ emitted' = << >>
    /\ UNCHANGED << url, navCurrentUrl >>
    /\ UNCHANGED navigationFrame

\* ================================================================ throttle
\* What a call of the throttled function, a timeout or the clock leaves alone.
throttleFrame ==
    << clientVars, childNodes, excludeAttr, textContent, observer, mutationRecords,
       nodeIdMap, nextNodeId, mutations, replica, formVars, navRecording, throttleDelay,
       storeVars, fileVars >>

\* What fn hands to onEvent when it is applied to the arguments of call args.
Emission(args) == << [type |-> "throttled", args |-> args, at |-> clock] >>

\* !timeoutId that holds whatever timeoutId is.
NoTimeoutAlways(id) == TRUE

\* !timeoutId
NoTimeout(id) == id = 0

\* throttled(...args): the handler is called.
ThrottledCall ==
    /\ throttledCalls < MaxThrottledCalls
    /\ throttledCalls' = throttledCalls + 1
    /\ domOp' = "throttled"
    /\ LET args == throttledCalls + 1
           remaining == throttleDelay - (clock - lastCall)
       IN  IF remaining <= 0
           THEN /\ timers' = {t \in timers : t.id # timeoutId}
                /\ timeoutId' = 0
                /\ lastCall' = clock
                /\ emitted' = Emission(args)
                /\ UNCHANGED nextTimerId
           ELSE IF NoTimeout(timeoutId)
           THEN /\ timers' = timers \cup {[id |-> nextTimerId, due |-> clock + remaining,
                                           args |-> args]}
                /\ timeoutId' = nextTimerId
                /\ nextTimerId' = nextTimerId + 1
                /\ emitted' = << >>
                /\ UNCHANGED lastCall
           ELSE /\ emitted' = << >>
                /\ UNCHANGED << timers, timeoutId, nextTimerId, lastCall >>
    /\ UNCHANGED clock
    /\ UNCHANGED throttleFrame

\* The callback of setTimeout runs, at its due time or later.
TimeoutFires ==
    \E t \in timers :
        /\ clock >= t.due
        /\ timers' = timers \ {t}
        /\ lastCall' = clock
        /\ timeoutId' = 0
        /\ emitted' = Emission(t.args)
        /\ domOp' = "timeout"
        /\ UNCHANGED << clock, nextTimerId, throttledCalls >>
        /\ UNCHANGED throttleFrame

\* Time passes in the page.
TimePasses ==
    /\ clock < StartTime + MaxTicks
    /\ clock' = clock + 1
    /\ domOp' = "tick"
    /\ emitted' = << >>
    /\ UNCHANGED << lastCall, timeoutId, timers, nextTimerId, throttledCalls >>
    /\ UNCHANGED throttleFrame

\* ============================================================ collector
\* Connections of the pool that serve requests.
Connections == {1, 2}

\* The session ids and the visitor fingerprints that occur in requests.
SessionIds == {1, 2}
Fingerprints == {1, 2}

\* events.length of the batches posted
BatchLengths == {1, 2}

\* event.timestamp of the events of a batch of n events: Date.now() at the
\* client when each was captured, so in the order of the batch, not after the
\* batch arrives and (batches are posted as they fill) not long before.
Timestamps(n) ==
    {ts \in [1..n -> {t \in 0..now : t >= now - 1}] :
         \A i \in 1..n, j \in 1..n : i < j => ts[i] <= ts[j]}

\* What a request body holds as sessionId and as events: sessionId 0 when it is
\* missing, events "missing", "notArray", or "array" with its length and the
\* timestamps of its events.
Bodies ==
    [sessionId : {1}, events : {"missing", "notArray"}, length : {0},
     timestamps : {<< >>}, fingerprint : {1}]
        \cup [sessionId : {0}, events : {"array"}, length : {1},
              timestamps : {<< 0 >>}, fingerprint : {1}]
        \cup {[sessionId |-> sid, events |-> "array", length |-> Len(ts),
               timestamps |-> ts, fingerprint |-> f] :
                  sid \in SessionIds, f \in clients,
                  ts \in UNION {Timestamps(n) : n \in BatchLengths}}

\* postEvents that lets every body through.
ValidBodyAny(body) == TRUE

\* postEvents: !(!sessionId || !events || !Array.isArray(events))
ValidBody(body) == body.sessionId # 0 /\ body.events = "array"

NoResponse == [op |-> "none", status |-> 0, eventsReceived |-> 0, call |-> 0]

NoBody ==
    [sessionId |-> 0, events |-> "missing", length |-> 0, timestamps |-> << >>,
     fingerprint |-> 1]

\* No getSession or listSessions has returned yet.
NoReply ==
    [op |-> "none", sid |-> 0, status |-> 0, events |-> << >>, sessions |-> << >>,
     total |-> 0, limit |-> 0, offset |-> 0]

\* A connection that serves no request.
Idle ==
    [pc |-> "idle", op |-> "none", body |-> NoBody, call |-> 0, sid |-> 0, fp |-> 0,
     n |-> 0, at |-> 0, cutoff |-> 0, expired |-> {},
     found |-> FALSE, inserted |-> 0, pendVisitor |-> 0, pendSession |-> "none",
     pendCount |-> 0, pendDeleted |-> {}, returned |-> FALSE, error |-> "none",
     resp |-> NoResponse]

\* ------------------------------------------------- file-based SessionStore
\* The characters of the sessionIds that match [a-zA-Z0-9_-], and the
\* sessionIds the calls carry, each the sequence of its characters.
SafeChars == {"a", "b"}
FileSessionIds == {<< "a" >>, << "a", "." >>, << "b" >>}

\* meta of a batch
Metas == {1, 2}

\* No file at a path; what getSession returns as null.
NoFile ==
    [sessionId |-> << >>, meta |-> 0, events |-> << >>, createdAt |-> -1,
     updatedAt |-> -1]

\* /[^a-zA-Z0-9_-]/ does not match ch
IsSafeChar(ch) == ch \in SafeChars

\* getSessionPath: sessionId.replace(/[^a-zA-Z0-9_-]/g, ''), the name of the
\* file in storagePath.
GetSessionPath(id) == SelectSeq(id, IsSafeChar)

FilePaths == {GetSessionPath(id) : id \in FileSessionIds}

\* getSession: readFile and JSON.parse, null when there is no file.
FileGetSession(id) == files[GetSessionPath(id)]

\* What an operation of the SessionStore leaves alone.
outsideFiles == << clientVars, domVars, formVars, watcherVars, storeVars >>

\* new SessionStore(options), init(): an empty storagePath, no call yet.
InitFiles ==
    /\ files = [p \in FilePaths |-> NoFile]
    /\ fileOps = << >>

\* The calls that have not returned yet.
FileCallsInFlight == {k \in 1..Len(fileOps) : fileOps[k].pc # "done"}

\* storeEvents(sessionId, events, meta) is called: init() returns, readFile
\* is issued.  The events of the batch are named by the call and their place;
\* during is the set of calls that were in flight when this one was made.
FileStoreEvents ==
    /\ Len(fileOps) < MaxFileCalls
    /\ \E id \in FileSessionIds, n \in BatchLengths, meta \in Metas :
          fileOps' = Append(fileOps,
                        [op |-> "storeEvents", sessionId |-> id,
                         events |-> [i \in 1..n |->
                                        [call |-> Len(fileOps) + 1, k |-> i]],
                         meta |-> meta, pc |-> "reading", read |-> NoFile,
                         session |-> NoFile, during |-> FileCallsInFlight])
    /\ UNCHANGED files
    /\ UNCHANGED outsideFiles

\* readFile settles and storeEvents runs on to writeFile: the session read
\* with the batch pushed and updatedAt set, or a new session when readFile
\* threw.
FileRead ==
    \E k \in 1..Len(fileOps) :
        /\ fileOps[k].pc = "reading"
        /\ LET existing == files[GetSessionPath(fileOps[k].sessionId)]
               session ==
                   IF existing # NoFile
                   THEN [existing EXCEPT !.events = @ \o fileOps[k].events,
                                         !.updatedAt = now]
                   ELSE [sessionId |-> fileOps[k].sessionId,
                         meta |-> fileOps[k].meta, events |-> fileOps[k].events,
                         createdAt |-> now, updatedAt |-> now]
           IN fileOps' = [fileOps EXCEPT ![k].pc = "writing", ![k].read = existing,
                                         ![k].session = session]
        /\ UNCHANGED files
        /\ UNCHANGED outsideFiles

\* writeFile settles: the file holds JSON.stringify(session); storeEvents
\* returns.
FileWrite ==
    \E k \in 1..Len(fileOps) :
        /\ fileOps[k].pc = "writing"
        /\ files' = [files EXCEPT ![GetSessionPath(fileOps[k].sessionId)] =
                                      fileOps[k].session]
        /\ fileOps' = [fileOps EXCEPT ![k].pc = "done"]
        /\ UNCHANGED outsideFiles

\* deleteSession(sessionId): unlink.
FileDeleteSession ==
    /\ Len(fileOps) < MaxFileCalls
    /\ \E id \in FileSessionIds :
          /\ files' = [files EXCEPT ![GetSessionPath(id)] = NoFile]
          /\ fileOps' = Append(fileOps,
                           [op |-> "deleteSession", sessionId |-> id,
                            events |-> << >>, meta |-> 0, pc |-> "done",
                            read |-> NoFile, session |-> NoFile,
                            during |-> FileCallsInFlight])
    /\ UNCHANGED outsideFiles

\* new PostgresStore(config), init(): the pool is connected and no request has
\* come in yet.
InitRequests ==
    /\ tx = [c \in Connections |-> Idle]
    /\ calls = 0
    /\ faults = 0
    /\ committedCalls = {}
    /\ deleteCalled = {}
    /\ sweeps = 0
    /\ now = 0
    /\ reply = NoReply

\* init() on a new database: createTables() makes empty tables.
InitStore ==
    /\ visitors = [f \in Fingerprints |-> 0]
    /\ sessions = {}
    /\ eventRows = {}
    /\ committedTotal = [sid \in SessionIds |-> 0]
    /\ InitRequests
    /\ InitFiles

\* init() on the database of an earlier run (CREATE TABLE IF NOT EXISTS keeps
\* the rows): some sessions are stored, each by one batch of two events that
\* the browser with fingerprint 1 posted at time 0 (call 0: before this run).
InitStored ==
    \E stored \in SUBSET SessionIds :
        /\ visitors = [f \in Fingerprints |->
                          IF f = 1 THEN Cardinality(stored) ELSE 0]
        /\ sessions = {[sid |-> sid, eventCount |-> 2, fingerprint |-> 1,
                        createdAt |-> 0, updatedAt |-> 0] : sid \in stored}
        /\ eventRows = {[sid |-> sid, call |-> 0, k |-> k, timestamp |-> 0] :
                            sid \in stored, k \in 1..2}
        /\ committedTotal = [sid \in SessionIds |-> IF sid \in stored THEN 2 ELSE 0]
        /\ InitRequests
        /\ InitFiles

\* A request is taken up: by the first free connection of the pool, and in a
\* behaviour of serial requests only when no other request is being served.
Free(c) ==
    /\ tx[c].pc = "idle"
    /\ \A d \in Connections : d < c => tx[d].pc # "idle"
    /\ calls < maxCalls
    /\ serial => \A d \in Connections : tx[d].pc = "idle"

\* Row locks: a transaction that has written a row and not yet ended holds it.
VisitorLocked(c, f) ==
    \E d \in Connections \ {c} : tx[d].pendVisitor # 0 /\ tx[d].fp = f

SessionLocked(c, sid) ==
    \E d \in Connections \ {c} :
        \/ tx[d].pendSession \in {"insert", "update", "delete"} /\ tx[d].sid = sid
        \/ tx[d].pendSession = "sweep" /\ sid \in tx[d].expired

\* The committed sessions rows of sid.
SessionRows(sid) == {r \in sessions : r.sid = sid}

\* The rows the INSERT INTO events statements of a transaction have written.
InsertedRows(c) ==
    {[sid |-> tx[c].sid, call |-> tx[c].call, k |-> k,
      timestamp |-> tx[c].body.timestamps[k]] : k \in 1..tx[c].inserted}

\* The rows of a finished transaction's tables: [visitors, sessions, eventRows].
\* ROLLBACK that keeps the events inserted so far.
RollbackTablesKeepsEvents(c) ==
    [visitors |-> visitors, sessions |-> sessions,
     eventRows |-> eventRows \cup InsertedRows(c)]

\* ROLLBACK: nothing the transaction wrote becomes visible.
RollbackTables(c) ==
    [visitors |-> visitors, sessions |-> sessions, eventRows |-> eventRows]

\* event_count = event_count + $1 with $1 = 1
CountDeltaOne(n) == 1

\* event_count = event_count + $1 with $1 = events.length
CountDelta(n) == n

\* DELETE FROM events that deletes nothing.
VisibleEventRowsNone(sid) == {}

\* The rows DELETE FROM events WHERE session_id = $1 sees: the committed ones.
VisibleEventRows(sid) == {r \in eventRows : r.sid = sid}

\* COMMIT of a transaction whose UPDATE sessions also sets what the batch
\* carries: fingerprint and created_at.
CommitTablesRewritesSession(c) ==
    LET t == tx[c]
    IN [visitors |-> IF t.pendVisitor # 0
                     THEN [visitors EXCEPT ![t.fp] = t.pendVisitor] ELSE visitors,
        sessions |->
            IF t.pendSession \in {"insert", "update"}
            THEN {r \in sessions : r.sid # t.sid}
                     \cup {[sid |-> t.sid, eventCount |-> t.pendCount,
                            fingerprint |-> t.fp, createdAt |-> t.at,
                            updatedAt |-> t.at]}
            ELSE IF t.pendSession = "delete"
            THEN sessions \ SessionRows(t.sid)
            ELSE IF t.pendSession = "sweep"
            THEN {r \in sessions : r.sid \notin t.expired}
            ELSE sessions,
        eventRows |-> (eventRows \ t.pendDeleted) \cup InsertedRows(c)]

\* COMMIT: everything the transaction wrote becomes visible at once.
CommitTables(c) ==
    LET t == tx[c]
    IN [visitors |-> IF t.pendVisitor # 0
                     THEN [visitors EXCEPT ![t.fp] = t.pendVisitor] ELSE visitors,
        sessions |->
            IF t.pendSession = "insert"
            THEN sessions \cup {[sid |-> t.sid, eventCount |-> t.pendCount,
                                 fingerprint |-> t.fp, createdAt |-> t.at,
                                 updatedAt |-> t.at]}
            ELSE IF t.pendSession = "update"
            THEN {IF r.sid = t.sid
                  THEN [r EXCEPT !.eventCount = t.pendCount, !.updatedAt = t.at]
                  ELSE r : r \in sessions}
            ELSE IF t.pendSession = "delete"
            THEN sessions \ SessionRows(t.sid)
            ELSE IF t.pendSession = "sweep"
            THEN {r \in sessions : r.sid \notin t.expired}
            ELSE sessions,
        eventRows |-> (eventRows \ t.pendDeleted) \cup InsertedRows(c)]

SetTables(tables) ==
    /\ visitors' = tables.visitors
    /\ sessions' = tables.sessions
    /\ eventRows' = tables.eventRows

storeHistory == << committedCalls, committedTotal, deleteCalled >>

\* postEvents up to the first statement of storeEvents: validation, then
\* pool.connect() and BEGIN.
PostEvents ==
    \E c \in Connections, body \in Bodies :
        /\ Free(c)
        /\ calls' = calls + 1
        /\ IF ~ValidBody(body)
           THEN tx' = [tx EXCEPT ![c] =
                          [Idle EXCEPT !.body = body,
                                       !.resp = [op |-> "postEvents", status |-> 400,
                                                 eventsReceived |-> 0,
                                                 call |-> calls + 1]]]
           ELSE tx' = [tx EXCEPT ![c] =
                          [Idle EXCEPT !.pc = "begun", !.op = "storeEvents",
                                       !.body = body, !.at = now,
                                       !.call = calls + 1, !.sid = body.sessionId,
                                       !.fp = body.fingerprint, !.n = body.length]]
        /\ UNCHANGED << visitors, sessions, eventRows, faults, serial, maxCalls,
                        clients, sweeps, now, storeHistory >>
        /\ reply' = NoReply
        /\ UNCHANGED outsideStore

\* An upsert that leaves the visit_count of an existing row as it is.
UpsertedVisitCountKept(count) == IF count = 0 THEN 1 ELSE count

\* INSERT INTO visitors (..., visit_count) VALUES (..., 1) ON CONFLICT
\* (fingerprint) DO UPDATE SET visit_count = visitors.visit_count + 1
UpsertedVisitCount(count) == count + 1

\* INSERT INTO visitors ... ON CONFLICT (fingerprint) DO UPDATE: waits while
\* another transaction holds the row.
UpsertVisitor ==
    \E c \in Connections :
        /\ tx[c].pc = "begun" /\ tx[c].op = "storeEvents"
        /\ ~VisitorLocked(c, tx[c].fp)
        /\ tx' = [tx EXCEPT ![c].pc = "visitor",
                            ![c].pendVisitor = UpsertedVisitCount(visitors[tx[c].fp])]
        /\ UNCHANGED << visitors, sessions, eventRows, calls, faults, serial, maxCalls,
                        clients, sweeps, now, storeHistory >>
        /\ reply' = NoReply
        /\ UNCHANGED outsideStore

\* SELECT id FROM sessions WHERE session_id = $1: sees the committed rows.
SessionCheck ==
    \E c \in Connections :
        /\ tx[c].pc = "visitor"
        /\ LET found == SessionRows(tx[c].sid) # {}
           IN tx' = [tx EXCEPT ![c].found = found,
                               ![c].pc = IF found THEN "session" ELSE "checked"]
        /\ UNCHANGED << visitors, sessions, eventRows, calls, faults, serial, maxCalls,
                        clients, sweeps, now, storeHistory >>
        /\ reply' = NoReply
        /\ UNCHANGED outsideStore

\* The connection after its request: released, with what the request was, how
\* far its transaction had come, and the answer of the route (cleanup is run by
\* a timer and answers nobody).
Finished(c, error, status, received) ==
    [Idle EXCEPT !.body = tx[c].body, !.sid = tx[c].sid, !.inserted = tx[c].inserted,
                 !.cutoff = tx[c].cutoff, !.expired = tx[c].expired,
                 !.error = error,
                 !.resp = [op |-> IF tx[c].op = "storeEvents" THEN "postEvents"
                                  ELSE tx[c].op,
                           status |-> IF tx[c].op = "cleanup" THEN 0 ELSE status,
                           eventsReceived |-> received,
                           call |-> tx[c].call]]

\* What the caller of a failed transaction gets: ROLLBACK, throw, and the route
\* answers 500.
Failed(c, error) == Finished(c, error, 500, 0)

\* INSERT INTO sessions: waits for a transaction that has inserted the same
\* session_id; fails on the unique constraint when a committed row has it.
InsertSession ==
    \E c \in Connections :
        /\ tx[c].pc = "checked"
        /\ ~SessionLocked(c, tx[c].sid)
        /\ IF SessionRows(tx[c].sid) # {}
           THEN /\ tx' = [tx EXCEPT ![c] = Failed(c, "unique_violation")]
                /\ SetTables(RollbackTables(c))
           ELSE /\ tx' = [tx EXCEPT ![c].pc = "session", ![c].pendSession = "insert"]
                /\ UNCHANGED << visitors, sessions, eventRows >>
        /\ UNCHANGED << calls, faults, serial, maxCalls, clients, sweeps, now,
                        storeHistory >>
        /\ reply' = NoReply
        /\ UNCHANGED outsideStore

\* One INSERT INTO events of the loop over the batch.
InsertEvent ==
    \E c \in Connections :
        /\ tx[c].pc = "session"
        /\ tx[c].inserted < tx[c].n
        /\ tx' = [tx EXCEPT ![c].inserted = @ + 1]
        /\ UNCHANGED << visitors, sessions, eventRows, calls, faults, serial, maxCalls,
                        clients, sweeps, now, storeHistory >>
        /\ reply' = NoReply
        /\ UNCHANGED outsideStore

\* UPDATE sessions SET event_count = event_count + $1 WHERE session_id = $2:
\* the row this transaction inserted, or the committed row once no other
\* transaction holds it; no row, no update.
UpdateCount ==
    \E c \in Connections :
        /\ tx[c].pc = "session"
        /\ tx[c].inserted = tx[c].n
        /\ ~SessionLocked(c, tx[c].sid)
        /\ LET rows == SessionRows(tx[c].sid)
           IN  tx' = IF tx[c].pendSession = "insert"
                     THEN [tx EXCEPT ![c].pc = "counted",
                                     ![c].pendCount = CountDelta(tx[c].n)]
                     ELSE IF rows # {}
                     THEN [tx EXCEPT ![c].pc = "counted", ![c].pendSession = "update",
                                     ![c].pendCount =
                                         (CHOOSE r \in rows : TRUE).eventCount
                                             + CountDelta(tx[c].n)]
                     ELSE [tx EXCEPT ![c].pc = "counted"]
        /\ UNCHANGED << visitors, sessions, eventRows, calls, faults, serial, maxCalls,
                        clients, sweeps, now, storeHistory >>
        /\ reply' = NoReply
        /\ UNCHANGED outsideStore

\* COMMIT of storeEvents; postEvents answers 200.
CommitStore ==
    \E c \in Connections :
        /\ tx[c].pc = "counted"
        /\ SetTables(CommitTables(c))
        /\ tx' = [tx EXCEPT ![c] = Finished(c, "none", 200, tx[c].n)]
        /\ committedCalls' = committedCalls \cup {tx[c].call}
        /\ committedTotal' = [committedTotal EXCEPT ![tx[c].sid] = @ + tx[c].n]
        /\ UNCHANGED << calls, faults, serial, maxCalls, clients, sweeps, now,
                        deleteCalled >>
        /\ reply' = NoReply
        /\ UNCHANGED outsideStore

\* A statement of an open transaction fails (the connection drops, a row
\* violates NOT NULL): catch, ROLLBACK, throw.
StatementFails ==
    \E c \in Connections :
        /\ tx[c].pc # "idle"
        /\ faults < MaxFaults
        /\ faults' = faults + 1
        /\ tx' = [tx EXCEPT ![c] = Failed(c, "fault")]
        /\ SetTables(RollbackTables(c))
        /\ UNCHANGED << calls, serial, maxCalls, clients, sweeps, now, storeHistory >>
        /\ reply' = NoReply
        /\ UNCHANGED outsideStore

\* deleteSession(sessionId): pool.connect() and BEGIN.
DeleteSession ==
    \E c \in Connections, sid \in SessionIds :
        /\ Free(c)
        /\ calls' = calls + 1
        /\ tx' = [tx EXCEPT ![c] =
                     [Idle EXCEPT !.pc = "begun", !.op = "deleteSession",
                                  !.call = calls + 1, !.sid = sid]]
        /\ deleteCalled' = deleteCalled \cup {sid}
        /\ UNCHANGED << visitors, sessions, eventRows, faults, serial, maxCalls,
                        clients, sweeps, now, committedCalls, committedTotal >>
        /\ reply' = NoReply
        /\ UNCHANGED outsideStore

\* DELETE FROM events WHERE session_id = $1
DeleteEvents ==
    \E c \in Connections :
        /\ tx[c].pc = "begun" /\ tx[c].op = "deleteSession"
        /\ tx' = [tx EXCEPT ![c].pc = "events",
                            ![c].pendDeleted = VisibleEventRows(tx[c].sid)]
        /\ UNCHANGED << visitors, sessions, eventRows, calls, faults, serial, maxCalls,
                        clients, sweeps, now, storeHistory >>
        /\ reply' = NoReply
        /\ UNCHANGED outsideStore

\* DELETE FROM sessions WHERE session_id = $1 RETURNING id
DeleteSessionRow ==
    \E c \in Connections :
        /\ tx[c].pc = "events"
        /\ ~SessionLocked(c, tx[c].sid)
        /\ tx' = IF SessionRows(tx[c].sid) # {}
                 THEN [tx EXCEPT ![c].pc = "deleted", ![c].pendSession = "delete",
                                 ![c].returned = TRUE]
                 ELSE [tx EXCEPT ![c].pc = "deleted"]
        /\ UNCHANGED << visitors, sessions, eventRows, calls, faults, serial, maxCalls,
                        clients, sweeps, now, storeHistory >>
        /\ reply' = NoReply
        /\ UNCHANGED outsideStore

\* COMMIT of deleteSession; the route answers 200, or 404 when no row was deleted.
CommitDelete ==
    \E c \in Connections :
        /\ tx[c].pc = "deleted"
        /\ SetTables(CommitTables(c))
        /\ tx' = [tx EXCEPT ![c] =
                     Finished(c, "none", IF tx[c].returned THEN 200 ELSE 404, 0)]
        /\ UNCHANGED << calls, faults, serial, maxCalls, clients, sweeps, now,
                        storeHistory >>
        /\ reply' = NoReply
        /\ UNCHANGED outsideStore

\* ------------------------------------------------------------------ cleanup
\* this.retentionDays, in ticks of the clock.
RetentionDays == 1

\* updated_at < $1 that also takes the rows updated at the cutoff.
ExpiredOrAtCutoff(r, cutoff) == r.updatedAt <= cutoff

\* WHERE updated_at < $1
Expired(r, cutoff) == r.updatedAt < cutoff

\* cleanup(), run by the hourly timer: cutoffDate, pool.connect() and BEGIN.
Cleanup ==
    \E c \in Connections :
        /\ tx[c].pc = "idle"
        /\ \A d \in Connections : d < c => tx[d].pc # "idle"
        /\ serial => \A d \in Connections : tx[d].pc = "idle"
        /\ sweeps < MaxSweeps
        /\ sweeps' = sweeps + 1
        /\ tx' = [tx EXCEPT ![c] =
                     [Idle EXCEPT !.pc = "begun", !.op = "cleanup", !.at = now,
                                  !.cutoff = now - RetentionDays]]
        /\ UNCHANGED << visitors, sessions, eventRows, calls, faults, serial, maxCalls,
                        clients, now, storeHistory >>
        /\ reply' = NoReply
        /\ UNCHANGED outsideStore

\* SELECT session_id FROM sessions WHERE updated_at < $1: sees the committed
\* rows; with no expired session the transaction goes straight to COMMIT.
SelectExpired ==
    \E c \in Connections :
        /\ tx[c].pc = "begun" /\ tx[c].op = "cleanup"
        /\ LET sessionIds == {r.sid : r \in {q \in sessions : Expired(q, tx[c].cutoff)}}
           IN tx' = [tx EXCEPT ![c].expired = sessionIds,
                               ![c].pc = IF sessionIds = {} THEN "swept" ELSE "expired"]
        /\ UNCHANGED << visitors, sessions, eventRows, calls, faults, serial, maxCalls,
                        clients, sweeps, now, storeHistory >>
        /\ reply' = NoReply
        /\ UNCHANGED outsideStore

\* DELETE FROM events WHERE session_id = ANY($1)
DeleteExpiredEvents ==
    \E c \in Connections :
        /\ tx[c].pc = "expired"
        /\ tx' = [tx EXCEPT ![c].pc = "expiredEvents",
                            ![c].pendDeleted =
                                UNION {VisibleEventRows(sid) : sid \in tx[c].expired}]
        /\ UNCHANGED << visitors, sessions, eventRows, calls, faults, serial, maxCalls,
                        clients, sweeps, now, storeHistory >>
        /\ reply' = NoReply
        /\ UNCHANGED outsideStore

\* DELETE FROM sessions WHERE session_id = ANY($1): waits for the transactions
\* that hold one of the rows, then deletes the rows that exist.
DeleteExpiredSessions ==
    \E c \in Connections :
        /\ tx[c].pc = "expiredEvents"
        /\ \A sid \in tx[c].expired : ~SessionLocked(c, sid)
        /\ tx' = [tx EXCEPT ![c].pc = "swept", ![c].pendSession = "sweep",
                            ![c].expired = {sid \in @ : SessionRows(sid) # {}}]
        /\ UNCHANGED << visitors, sessions, eventRows, calls, faults, serial, maxCalls,
                        clients, sweeps, now, storeHistory >>
        /\ reply' = NoReply
        /\ UNCHANGED outsideStore

\* COMMIT of cleanup.
CommitCleanup ==
    \E c \in Connections :
        /\ tx[c].pc = "swept"
        /\ SetTables(CommitTables(c))
        /\ tx' = [tx EXCEPT ![c] = Finished(c, "none", 0, 0)]
        /\ UNCHANGED << calls, faults, serial, maxCalls, clients, sweeps, now,
                        storeHistory >>
        /\ reply' = NoReply
        /\ UNCHANGED outsideStore

\* Time passes at the collector.
Tick ==
    /\ now < MaxClock
    /\ now' = now + 1
    /\ UNCHANGED << visitors, sessions, eventRows, tx, calls, faults, serial, maxCalls,
                    clients, sweeps, storeHistory >>
    /\ reply' = NoReply
    /\ UNCHANGED outsideStore

\* -------------------------------------------------------------------- reads
\* The limit and offset listSessions is asked with.
Limits == {1, 2}
Offsets == {0, 1}

\* ORDER BY updated_at DESC: the orders in which the rows can come back; the
\* order of rows with equal updated_at is not determined.
RECURSIVE OrderByUpdatedAtDesc(_)
OrderByUpdatedAtDesc(rows) ==
    IF rows = {} THEN {<< >>}
    ELSE UNION {{<< r >> \o rest : rest \in OrderByUpdatedAtDesc(rows \ {r})} :
                   r \in {q \in rows : \A o \in rows : q.updatedAt >= o.updatedAt}}

\* LIMIT $1 that ignores OFFSET $2.
LimitOnly(rows, limit, offset) == SubSeq(rows, 1, Min(Len(rows), limit))

\* LIMIT $1 OFFSET $2
LimitOffset(rows, limit, offset) ==
    SubSeq(rows, offset + 1, Min(Len(rows), offset + limit))

\* sessionsResult.rows.map(s => ({...}))
SessionSummary(s) ==
    [sessionId |-> s.sid, fingerprint |-> s.fingerprint, eventCount |-> s.eventCount,
     createdAt |-> s.createdAt, updatedAt |-> s.updatedAt]

\* listSessions({limit, offset}) between two requests that write: COUNT(*),
\* then the page; the route answers 200 with the result.
ListSessions ==
    \E limit \in Limits, offset \in Offsets, rows \in OrderByUpdatedAtDesc(sessions) :
        /\ \A c \in Connections : tx[c].pc = "idle"
        /\ LET page == LimitOffset(rows, limit, offset)
           IN reply' = [NoReply EXCEPT !.op = "listSessions", !.status = 200,
                            !.sessions = [i \in 1..Len(page) |-> SessionSummary(page[i])],
                            !.total = Cardinality(sessions),
                            !.limit = limit, !.offset = offset]
        /\ UNCHANGED << visitors, sessions, eventRows, tx, calls, faults, serial,
                        maxCalls, clients, sweeps, now, storeHistory >>
        /\ UNCHANGED outsideStore

\* ORDER BY timestamp ASC: the orders in which the rows can come back; the
\* order of rows with equal timestamp is not determined.
RECURSIVE OrderByTimestamp(_)
OrderByTimestamp(rows) ==
    IF rows = {} THEN {<< >>}
    ELSE UNION {{<< r >> \o rest : rest \in OrderByTimestamp(rows \ {r})} :
                   r \in {q \in rows : \A o \in rows : q.timestamp <= o.timestamp}}

\* eventsResult.rows.map(e => ({...})): data stands for what tells the event
\* from every other, the call that appended it and its place in that batch.
EventOut(e) == [timestamp |-> e.timestamp, data |-> << e.call, e.k >>]

\* getSession(sessionId) between two requests that write: the session row,
\* null when there is none (the route answers 404), then its events.
GetSession ==
    \E sid \in SessionIds :
        /\ \A c \in Connections : tx[c].pc = "idle"
        /\ Cardinality(VisibleEventRows(sid)) <= MaxLog
        /\ IF SessionRows(sid) = {}
           THEN reply' = [NoReply EXCEPT !.op = "getSession", !.sid = sid,
                                         !.status = 404]
           ELSE \E rows \in OrderByTimestamp(VisibleEventRows(sid)) :
                    reply' = [NoReply EXCEPT
                                 !.op = "getSession", !.sid = sid, !.status = 200,
                                 !.events = [i \in 1..Len(rows) |-> EventOut(rows[i])]]
        /\ UNCHANGED << visitors, sessions, eventRows, tx, calls, faults, serial,
                        maxCalls, clients, sweeps, now, storeHistory >>
        /\ UNCHANGED outsideStore

Init ==
    /\ InitClient
    /\ InitDocument
    /\ InitForm
    /\ InitWatchers
    /\ InitStore
    /\ serial = FALSE
    /\ maxCalls = MaxOverlappingCalls
    /\ clients = Fingerprints
    /\ privacy = [maskAllInputs |-> FALSE, maskSensitiveInputs |-> TRUE]
    /\ field = PlainField

\* ----------------------------------------------------------------- start
StartEvents == 3

\* start() with the snapshot taken after the page load was recorded.
StartSequenceSnapshotLast == << "session_start", "page_load", "dom_snapshot" >>

\* What start() hands to handleEvent, in order: SESSION_START, the snapshot of
\* captureSnapshot(), then, the recorders started, recordPageLoad().
StartSequence == << "session_start", "dom_snapshot", "page_load" >>

\* start() as far as the Webvisor instance, the page's URL and localStorage go.
StartInstance ==
    /\ failures' = failures
    /\ IF AlreadyRecording
       THEN /\ ret' = [op |-> "start", val |-> "false"]
            /\ UNCHANGED << url, storage, flushListeners, config, sessionId, isRecording,
                            isSampled, events, sendQueue, batchTimer, recorders,
                            navCurrentUrl, inflight, stopAwait, delivered, requeued,
                            nextSeq, nextSid >>
       ELSE IF IsPageExcluded(url)
       THEN /\ ret' = [op |-> "start", val |-> "false"]
            /\ UNCHANGED << url, storage, flushListeners, config, sessionId, isRecording,
                            isSampled, events, sendQueue, batchTimer, recorders,
                            navCurrentUrl, inflight, stopAwait, delivered, requeued,
                            nextSeq, nextSid >>
       ELSE \E random \in RandomPercents :
            LET s == ShouldSample(storage.sampled, config.samplingRate, random)
            IN  /\ s.result => nextSeq + StartEvents <= MaxEvents + 1
                /\ isSampled' = s.result
                /\ IF ~s.result
                   THEN /\ storage' = [storage EXCEPT !.sampled = s.stored]
                        /\ ret' = [op |-> "start", val |-> "false"]
                        /\ UNCHANGED << url, flushListeners, config, sessionId,
                                        isRecording, events, sendQueue, batchTimer,
                                        recorders, navCurrentUrl, inflight, stopAwait,
                                        delivered, requeued, nextSeq, nextSid >>
                   ELSE LET fresh == storage.sessionId = 0
                            sid == IF fresh THEN nextSid ELSE storage.sessionId
                            p0 == [Pipe EXCEPT !.sessionId = sid, !.isRecording = TRUE]
                            p1 == HandleEvent(p0, StartSequence[1])
                            p2 == HandleEvent(p1, StartSequence[2])
                            p3 == HandleEvent(p2, StartSequence[3])
                        IN  /\ storage' = [sampled |-> s.stored, sessionId |-> sid]
                            /\ nextSid' = IF fresh THEN nextSid + 1 ELSE nextSid
                            /\ SetPipe(p3)
                            /\ recorders' = "started"
                            /\ navCurrentUrl' = url
                            /\ batchTimer' = TRUE
                            /\ flushListeners' = TRUE
                            /\ ret' = [op |-> "start", val |-> "true"]
                            /\ UNCHANGED << url, config, stopAwait, delivered >>

\* start() on a page whose watchers are not looked at.
Start ==
    /\ UNCHANGED outsideClient
    /\ StartInstance

\* start() with the pointer watcher it builds: new InteractionRecorder(...)
\* and its start() wrap the handlers anew, so the listeners of this recording
\* get a throttle closure with lastCall = 0 and timeoutId = null.  A timeout
\* that a closure of an earlier recording set stays pending.
StartWithPointerWatcher ==
    /\ StartInstance
    /\ IF ret'.val = "true"
       THEN lastCall' = 0 /\ timeoutId' = 0
       ELSE UNCHANGED << lastCall, timeoutId >>
    /\ UNCHANGED << navRecording, clock, throttleDelay, timers, nextTimerId,
                    throttledCalls >>
    /\ UNCHANGED << domVars, formVars, storeVars, fileVars >>

\* ------------------------------------------------------------------ stop
Stop ==
    /\ UNCHANGED outsideClient
    /\ failures' = failures
    /\ IF NotRecording
       THEN /\ ret' = [op |-> "stop", val |-> "noop"]
            /\ UNCHANGED << url, storage, flushListeners, config, sessionId, isRecording,
                            isSampled, events, sendQueue, batchTimer, recorders,
                            navCurrentUrl, inflight, stopAwait, delivered, requeued,
                            nextSeq, nextSid >>
       ELSE LET p0 == [Pipe EXCEPT !.isRecording = FALSE]
                p1 == HandleEvent(p0, "session_end")
                p2 == SendBatch(p1)
                sent == p2.inflight \ p1.inflight
            IN  /\ SetPipe(p2)
                /\ recorders' = "stopped"
                /\ batchTimer' = FALSE
                /\ IF sent = {}
                   THEN /\ storage' = [storage EXCEPT !.sessionId = 0]
                        /\ stopAwait' = stopAwait
                        /\ ret' = [op |-> "stop", val |-> "resolved"]
                   ELSE /\ storage' = storage
                        /\ stopAwait' = stopAwait \cup
                               {[batch |-> d.batch,
                                 queued |-> {e.n : e \in Range(p1.sendQueue)}] : d \in sent}
                        /\ ret' = [op |-> "stop", val |-> "awaiting"]
                /\ UNCHANGED << url, flushListeners, config, isSampled, navCurrentUrl,
                                delivered, nextSid >>

\* ------------------------------------------------------- channel callbacks
ChannelTypes == {"dom_mutation"}

\* A capture channel's callback hands an event to handleEvent.
ChannelEvent ==
    /\ UNCHANGED outsideClient
    /\ recorders = "started"
    /\ nextSeq <= MaxEvents
    /\ \E type \in ChannelTypes : SetPipe(HandleEvent(Pipe, type))
    /\ ret' = [op |-> "handleEvent", val |-> "none"]
    /\ UNCHANGED << url, storage, flushListeners, config, isSampled, batchTimer,
                    recorders, navCurrentUrl, stopAwait, delivered, nextSid, failures >>

\* A throttled listener of the started pointer watcher (mousemove, scroll,
\* resize) is invoked: throttled(...args), whose fn hands an event to
\* handleEvent at once or from a trailing timeout.
PointerEvent ==
    /\ recorders = "started"
    /\ throttledCalls < MaxThrottledCalls
    /\ nextSeq <= MaxEvents
    /\ throttledCalls' = throttledCalls + 1
    /\ LET remaining == throttleDelay - (clock - lastCall)
       IN  IF remaining <= 0
           THEN /\ timers' = {t \in timers : t.id # timeoutId}
                /\ timeoutId' = 0
                /\ lastCall' = clock
                /\ SetPipe(HandleEvent(Pipe, "mouse_move"))
                /\ UNCHANGED nextTimerId
           ELSE IF NoTimeout(timeoutId)
           THEN /\ timers' = timers \cup {[id |-> nextTimerId, due |-> clock + remaining,
                                           args |-> throttledCalls + 1]}
                /\ timeoutId' = nextTimerId
                /\ nextTimerId' = nextTimerId + 1
                /\ UNCHANGED << lastCall, isRecording, sessionId, events, sendQueue,
                                inflight, requeued, nextSeq >>
           ELSE UNCHANGED << timers, timeoutId, nextTimerId, lastCall, isRecording,
                             sessionId, events, sendQueue, inflight, requeued, nextSeq >>
    /\ ret' = [op |-> "pointerEvent", val |-> "none"]
    /\ UNCHANGED << url, storage, flushListeners, config, isSampled, batchTimer,
                    recorders, navCurrentUrl, stopAwait, delivered, nextSid, failures >>
    /\ UNCHANGED << navRecording, clock, throttleDelay >>
    /\ UNCHANGED << domVars, formVars, storeVars, fileVars >>

\* The timeout a throttled listener set runs, at its due time or later and
\* whether or not its watcher has been stopped since (stop() removes the
\* listeners and clears no timeout): fn hands its event to handleEvent.  The
\* closure of the listeners in use is the one whose timeoutId the timeout is.
TrailingTimeout ==
    \E t \in timers :
        /\ clock >= t.due
        /\ isRecording => nextSeq <= MaxEvents
        /\ timers' = timers \ {t}
        /\ IF t.id = timeoutId
           THEN lastCall' = clock /\ timeoutId' = 0
           ELSE UNCHANGED << lastCall, timeoutId >>
        /\ SetPipe(HandleEvent(Pipe, "mouse_move"))
        /\ ret' = [op |-> "trailingTimeout", val |-> "none"]
        /\ UNCHANGED << url, storage, flushListeners, config, isSampled, batchTimer,
                        recorders, navCurrentUrl, stopAwait, delivered, nextSid,
                        failures >>
        /\ UNCHANGED << navRecording, clock, throttleDelay, nextTimerId,
                        throttledCalls >>
        /\ UNCHANGED << domVars, formVars, storeVars, fileVars >>

\* The URL changes (history API, popstate, hashchange); a started navigation
\* watcher runs recordTransition.
Navigate ==
    \E u \in URLs \ {url} :
        /\ UNCHANGED outsideClient
        /\ url' = u
        /\ IF recorders = "started" /\ u # navCurrentUrl /\ ~IsExcludedPage(u)
           THEN /\ nextSeq <= MaxEvents
                /\ navCurrentUrl' = u
                /\ SetPipe(HandleEvent(Pipe, "page_transition"))
           ELSE UNCHANGED << navCurrentUrl, isRecording, sessionId, events, sendQueue,
                             inflight, requeued, nextSeq >>
        /\ ret' = [op |-> "navigate", val |-> "none"]
        /\ UNCHANGED << storage, flushListeners, config, isSampled, batchTimer,
                        recorders, stopAwait, delivered, nextSid, failures >>

\* ---------------------------------------------------------- flush triggers
\* setInterval callback of startBatchTimer.
TimerFlush ==
    /\ UNCHANGED outsideClient
    /\ batchTimer
    /\ SetPipe(SendBatch(Pipe))
    /\ ret' = [op |-> "timerFlush", val |-> "none"]
    /\ UNCHANGED << url, storage, flushListeners, config, isSampled, batchTimer,
                    recorders, navCurrentUrl, stopAwait, delivered, nextSid, failures >>

\* beforeunload, or visibilitychange to hidden.
UnloadFlush ==
    /\ UNCHANGED outsideClient
    /\ flushListeners
    /\ SetPipe(SendBatch(Pipe))
    /\ ret' = [op |-> "unloadFlush", val |-> "none"]
    /\ UNCHANGED << url, storage, flushListeners, config, isSampled, batchTimer,
                    recorders, navCurrentUrl, stopAwait, delivered, nextSid, failures >>

\* ------------------------------------------------------ delivery outcomes
\* What a stop() awaiting this delivery does when sendBatch returns.
StopResumes(d, outcome) ==
    IF \E w \in stopAwait : w.batch = d.batch
    THEN LET w == CHOOSE x \in stopAwait : x.batch = d.batch
         IN  /\ stopAwait' = stopAwait \ {w}
             /\ storage' = [storage EXCEPT !.sessionId = 0]
             /\ ret' = [op |-> "stopResolved", val |-> outcome, queued |-> w.queued]
    ELSE /\ UNCHANGED << stopAwait, storage >>
         /\ ret' = [op |-> "delivery", val |-> outcome]

\* response.ok
DeliverOk ==
    \E d \in inflight :
        /\ UNCHANGED outsideClient
        /\ inflight' = inflight \ {d}
        /\ delivered' = delivered \cup {e.n : e \in Range(d.batch)}
        /\ StopResumes(d, "ok")
        /\ UNCHANGED << failures, url, flushListeners, config, sessionId, isRecording, isSampled,
                        events, sendQueue, batchTimer, recorders, navCurrentUrl,
                        requeued, nextSeq, nextSid >>

\* A failed batch that stays in the queue and is put back as well.
RequeueKeepsBatch(batch, queue) == batch \o batch \o queue

\* !response.ok, or fetch rejects: this.sendQueue.unshift(...batch)
Requeue(batch, queue) == batch \o queue

DeliverFail ==
    \E d \in inflight :
        /\ UNCHANGED outsideClient
        /\ failures < MaxFailures
        /\ failures' = failures + 1
        /\ inflight' = inflight \ {d}
        /\ sendQueue' = Requeue(d.batch, sendQueue)
        /\ requeued' = requeued \cup {d.batch}
        /\ StopResumes(d, "failed")
        /\ UNCHANGED << url, flushListeners, config, sessionId, isRecording, isSampled,
                        events, batchTimer, recorders, navCurrentUrl, delivered,
                        nextSeq, nextSid >>

\* ------------------------------------------------------------ page views
\* A new page view of the same visitor: new Webvisor(config) on a fresh page,
\* over the localStorage the earlier page views left. The old page's listeners
\* and continuations are gone with the page.
NewPageView ==
    /\ UNCHANGED outsideClient
    /\ url' \in URLs
    /\ config' \in [batchSize : 1..MaxBatch, samplingRate : SamplingRates]
    /\ sessionId' = 0
    /\ isRecording' = FALSE
    /\ isSampled' = FALSE
    /\ events' = << >>
    /\ sendQueue' = << >>
    /\ batchTimer' = FALSE
    /\ recorders' = "none"
    /\ navCurrentUrl' = ""
    /\ flushListeners' = FALSE
    /\ inflight' = {}
    /\ stopAwait' = {}
    /\ requeued' = {}
    /\ ret' = [op |-> "new", val |-> "none"]
    /\ UNCHANGED << storage, delivered, nextSeq, nextSid, failures >>

\* Webvisor.clearStorage
ClearStorage ==
    /\ UNCHANGED outsideClient
    /\ storage' = [sampled |-> "null", sessionId |-> 0]
    /\ ret' = [op |-> "clearStorage", val |-> "none"]
    /\ UNCHANGED << url, flushListeners, config, sessionId, isRecording, isSampled,
                    events, sendQueue, batchTimer, recorders, navCurrentUrl, inflight,
                    stopAwait, delivered, requeued, nextSeq, nextSid, failures >>

\* ------------------------------------------------------- specifications
Next ==
    \/ Start
    \/ Stop
    \/ ChannelEvent
    \/ TimerFlush
    \/ UnloadFlush
    \/ DeliverOk
    \/ DeliverFail

Spec == Init /\ [][Next]_vars

NextVisits ==
    \/ Start
    \/ Stop
    \/ ChannelEvent
    \/ Navigate
    \/ TimerFlush
    \/ DeliverOk
    \/ NewPageView
    \/ ClearStorage

SpecVisits == Init /\ [][NextVisits]_vars

\* A DOMRecorder on its own, as the README's "Individual Recorders" use it.
InitDom ==
    /\ InitClient
    /\ url = "/home"
    /\ config = [batchSize |-> MaxBatch, samplingRate |-> 100]
    /\ InitDocument
    /\ InitForm
    /\ InitWatchers
    /\ InitStore
    /\ serial = FALSE
    /\ maxCalls = MaxOverlappingCalls
    /\ clients = Fingerprints
    /\ privacy = [maskAllInputs |-> FALSE, maskSensitiveInputs |-> TRUE]
    /\ field = PlainField

NextDom ==
    \/ AppendChild
    \/ RemoveChild
    \/ ToggleExcludeAttribute
    \/ SetData
    \/ CaptureSnapshot
    \/ StartObserver
    \/ ProcessMutations

SpecDom == InitDom /\ [][NextDom]_vars

\* The structure watcher on a page where the handling of a record may throw.
NextDomThrowing ==
    \/ NextDom
    \/ ThrowingCallback

SpecDomThrowing == InitDom /\ [][NextDomThrowing]_vars

\* The page, the structure watcher and the remote party that replays its events.
NextReplay ==
    \/ AppendChild
    \/ RemoveChild
    \/ ToggleExcludeAttribute
    \/ SetData
    \/ StartRecording
    \/ ReplayedCallback

SpecReplay == InitDom /\ [][NextReplay]_vars

\* The form and pointer watchers on a page html > div > field, whose elements
\* page scripts mark and unmark with the exclude attribute.
InitInput ==
    /\ InitClient
    /\ url = "/home"
    /\ config = [batchSize |-> MaxBatch, samplingRate |-> 100]
    /\ childNodes = [n \in Nodes |-> IF n = Root THEN << 2 >>
                                     ELSE IF n = 2 THEN << FieldNode >> ELSE << >>]
    /\ excludeAttr = {}
    /\ textContent = [n \in CharacterData |-> "a"]
    /\ observer = FALSE
    /\ mutationRecords = << >>
    /\ nodeIdMap = [n \in Nodes |-> 0]
    /\ nextNodeId = 1
    /\ emitted = << >>
    /\ mutations = 0
    /\ replica = NullNode
    /\ domOp = "new"
    /\ InitForm
    /\ InitWatchers
    /\ InitStore
    /\ serial = FALSE
    /\ maxCalls = MaxOverlappingCalls
    /\ clients = Fingerprints
    /\ privacy \in [maskAllInputs : BOOLEAN, maskSensitiveInputs : BOOLEAN]
    /\ field \in Fields

NextInput ==
    \/ ToggleExcludeAttribute
    \/ InputRecorderStart
    \/ InteractionRecorderStart
    \/ InputEvent
    \/ ChangeEvent
    \/ FocusBlurEvent
    \/ ClickEvent
    \/ CaptureSnapshot

SpecInput == InitInput /\ [][NextInput]_vars

\* The collector alone: requests over an empty database.
\* The browser side, which the collector's specifications leave alone.
InitNoBrowser ==
    /\ InitClient
    /\ url = "/home"
    /\ config = [batchSize |-> MaxBatch, samplingRate |-> 100]
    /\ InitDocument
    /\ InitForm
    /\ InitWatchers
    /\ privacy = [maskAllInputs |-> FALSE, maskSensitiveInputs |-> TRUE]
    /\ field = PlainField

InitCollector ==
    /\ InitNoBrowser
    /\ InitStore

NextStore ==
    \/ PostEvents
    \/ UpsertVisitor
    \/ SessionCheck
    \/ InsertSession
    \/ InsertEvent
    \/ UpdateCount
    \/ CommitStore
    \/ StatementFails
    \/ DeleteSession
    \/ DeleteEvents
    \/ DeleteSessionRow
    \/ CommitDelete

\* Requests overlap.
InitOverlapping ==
    /\ InitCollector
    /\ serial = FALSE
    /\ maxCalls = MaxOverlappingCalls
    /\ clients = Fingerprints

SpecStore == InitOverlapping /\ [][NextStore]_vars

\* Requests are served one at a time.
InitSerial ==
    /\ InitCollector
    /\ serial = TRUE
    /\ maxCalls = MaxCalls
    /\ clients = Fingerprints

SpecStoreSerial == InitSerial /\ [][NextStore]_vars

\* A NavigationRecorder over the page's URL.
InitNavigation ==
    /\ InitClient
    /\ config = [batchSize |-> MaxBatch, samplingRate |-> 100]
    /\ InitDocument
    /\ InitForm
    /\ InitWatchers
    /\ privacy = [maskAllInputs |-> FALSE, maskSensitiveInputs |-> TRUE]
    /\ field = PlainField
    /\ InitStore
    /\ serial = FALSE
    /\ maxCalls = MaxOverlappingCalls
    /\ clients = Fingerprints

NextNavigation ==
    \/ NavigationRecorderStart
    \/ RecordPageLoad
    \/ UrlChange
    \/ NavigationRecorderStop

SpecNavigation == InitNavigation /\ [][NextNavigation]_vars

\* One recorded page with its flush timer and its endpoint. The setInterval
\* callback runs again and again while the timer is set, and every fetch settles;
\* the endpoint fails at most MaxFailures deliveries. beforeunload and
\* visibilitychange come from the visitor: nothing schedules them.
InitDelivery ==
    /\ Init
    /\ url = "/home"
    /\ config.samplingRate = 100

NextDelivery ==
    \/ Start
    \/ Stop
    \/ ChannelEvent
    \/ TimerFlush
    \/ UnloadFlush
    \/ DeliverOk
    \/ DeliverFail

FairDelivery ==
    /\ WF_vars(TimerFlush)
    /\ WF_vars(DeliverOk \/ DeliverFail)

SpecDelivery == InitDelivery /\ [][NextDelivery]_vars /\ FairDelivery

\* A handler wrapped by throttle(fn, delay).
InitThrottle ==
    /\ InitClient
    /\ url = "/home"
    /\ config = [batchSize |-> MaxBatch, samplingRate |-> 100]
    /\ InitDocument
    /\ InitForm
    /\ navRecording = FALSE
    /\ throttleDelay \in Delays
    /\ InitThrottled
    /\ privacy = [maskAllInputs |-> FALSE, maskSensitiveInputs |-> TRUE]
    /\ field = PlainField
    /\ InitStore
    /\ serial = FALSE
    /\ maxCalls = MaxOverlappingCalls
    /\ clients = Fingerprints

NextThrottle ==
    \/ ThrottledCall
    \/ TimeoutFires
    \/ TimePasses

SpecThrottle == InitThrottle /\ [][NextThrottle]_vars

\* The collector with its clock over the database of an earlier run, requests
\* served one at a time: SpecRetention with the retention sweep, SpecArchive
\* with the read routes.
InitArchive ==
    /\ InitNoBrowser
    /\ InitStored
    /\ serial = TRUE
    /\ maxCalls = MaxTimedCalls
    /\ clients = {1}

NextRetention ==
    \/ NextStore
    \/ Tick
    \/ Cleanup
    \/ SelectExpired
    \/ DeleteExpiredEvents
    \/ DeleteExpiredSessions
    \/ CommitCleanup

SpecRetention == InitArchive /\ [][NextRetention]_vars

NextArchive ==
    \/ NextStore
    \/ Tick
    \/ ListSessions
    \/ GetSession

SpecArchive == InitArchive /\ [][NextArchive]_vars

\* One Webvisor instance with its pointer watcher and the page's clock:
\* recordings started and stopped while throttled listeners and their
\* trailing timeouts run.
InitStopping ==
    /\ Init
    /\ url = "/home"
    /\ config = [batchSize |-> MaxBatch, samplingRate |-> 100]

NextStopping ==
    \/ StartWithPointerWatcher
    \/ Stop
    \/ PointerEvent
    \/ TrailingTimeout
    \/ TimePasses
    \/ TimerFlush
    \/ DeliverOk

SpecStopping == InitStopping /\ [][NextStopping]_vars

\* The file-based SessionStore and the clock of its process: calls of
\* storeEvents and deleteSession that overlap.
NextFiles ==
    \/ FileStoreEvents
    \/ FileRead
    \/ FileWrite
    \/ FileDeleteSession
    \/ Tick

SpecFiles == InitSerial /\ [][NextFiles]_vars

\* The collector with its clock over the database of an earlier run, requests
\* served one at a time, posted by browsers with different fingerprints.
InitAppend ==
    /\ InitNoBrowser
    /\ InitStored
    /\ serial = TRUE
    /\ maxCalls = MaxTimedCalls
    /\ clients = Fingerprints

NextAppend ==
    \/ NextStore
    \/ Tick

SpecAppend == InitAppend /\ [][NextAppend]_vars

\* ================================================================ claims
Sorted(s) == \A i, j \in 1..Len(s) : i < j => s[i].n < s[j].n

InflightEvents == UNION {Range(d.batch) : d \in inflight}

\* Everything but ret.
instanceState == << domVars, url, storage, flushListeners, config, sessionId, isRecording,
                    isSampled, events, sendQueue, batchTimer, recorders, navCurrentUrl,
                    inflight, stopAwait, delivered, requeued, nextSeq, nextSid, failures >>

\* A step of start(), of stop(): the only actions that leave these in ret.
StartStep == ret'.op = "start"
StopStep == ret'.op = "stop"

\* C1: events keep their enqueue order: every posted batch lists its events in
\* enqueue order and the pending queue is always ordered by enqueue order, a
\* failed batch going back to the head ahead of everything enqueued since.
C1_EnqueueOrderKept ==
    /\ Sorted(sendQueue)
    /\ \A d \in inflight : Sorted(d.batch)

\* C2: at no time are two deliveries of one Webvisor instance in flight at once.
C2_OneDeliveryInFlight == Cardinality(inflight) <= 1

\* C3: a batch whose delivery failed is back in the pending queue once sendBatch
\* completes, and the next flush attempt posts its events first, in their
\* original order: until that flush the batch is the head of the queue.
C3_FailedBatchPostedFirstNext == \A batch \in requeued : IsPrefix(batch, sendQueue)

\* C4: an explicit stop() of a recording Webvisor emits a session-end event,
\* which is in the pending queue or in the batch offered to the final flush.
C4_StopEmitsSessionEnd ==
    (ret.op = "stop" /\ ret.val # "noop")
        => \E e \in Range(sendQueue) \cup InflightEvents :
               e.type = "session_end" /\ e.sessionId = sessionId

\* C5: when stop() resolves and its final delivery was acknowledged with
\* success, every event that was in the pending queue when stop() was called has
\* been posted: none of them is still pending.
C5_StopPostsAllQueued ==
    (ret.op = "stopResolved" /\ ret.val = "ok")
        => \A e \in Range(sendQueue) : e.n \notin ret.queued

\* C6: start() while recording returns false and changes nothing (session id,
\* channels, timer, queue); stop() while not recording changes nothing either.
C6_RepeatedStartStopNoop ==
    [][/\ (StartStep /\ isRecording) => (ret'.val = "false" /\ UNCHANGED instanceState)
       /\ (StopStep /\ ~isRecording) => (ret'.val = "noop" /\ UNCHANGED instanceState)]_vars

C6_Witness ==
    /\ ret = [op |-> "start", val |-> "false"]
    /\ isRecording /\ batchTimer /\ recorders = "started"
    /\ sendQueue # << >>

\* C7: a stored sampling decision is reused by every later start(), never
\* re-rolled or rewritten, whatever samplingRate is configured; with the stored
\* decision false start() returns false, allocates no session id and starts no
\* channel and no batch timer.
C7_SamplingDecidedOnce ==
    [][(StartStep /\ storage.sampled # "null") =>
          /\ storage'.sampled = storage.sampled
          /\ ret'.val = "true" => storage.sampled = "true"
          /\ storage.sampled = "false" =>
                /\ ret'.val = "false"
                /\ ~isRecording'
                /\ UNCHANGED << sessionId, nextSid, recorders, batchTimer >>
                /\ storage'.sessionId = storage.sessionId]_vars

C7_Witness ==
    /\ ret = [op |-> "start", val |-> "false"]
    /\ storage.sampled = "false"
    /\ config.samplingRate = 100
    /\ url = "/home"
    /\ ~isRecording

\* C8: start() returns true, and the instance becomes recording, only when the
\* URL matches no excludePages pattern and the sampling decision is true; when
\* the page is excluded or the decision is not true it returns false, leaves
\* isActive() as it was (false stays false), allocates no session id, starts no
\* channel and no batch timer and enqueues no event.
UrlMatchesExcludePattern == \E pattern \in ExcludePages : RegExpTest(pattern, url)

C8_StartOnlyWhenAllowed ==
    [][StartStep =>
          /\ ret'.val = "true" =>
                (~UrlMatchesExcludePattern /\ storage'.sampled = "true" /\ isRecording')
          /\ (~isRecording /\ isRecording') => ret'.val = "true"
          /\ (UrlMatchesExcludePattern \/ storage'.sampled # "true") =>
                /\ ret'.val = "false"
                /\ isRecording' = isRecording
                /\ UNCHANGED << sessionId, nextSid, recorders, batchTimer, sendQueue,
                                events, inflight, nextSeq >>
                /\ storage'.sessionId = storage.sessionId]_vars

C8_Witness ==
    /\ ret = [op |-> "start", val |-> "false"]
    /\ UrlMatchesExcludePattern
    /\ storage.sampled = "true"
    /\ ~isRecording /\ sessionId = 0 /\ recorders = "none" /\ ~batchTimer

\* ---------------------------------------------------- structural watcher
\* A node is in an excluded subtree: it carries the exclude attribute or is a
\* descendant (element, text or comment) of an element that does.
InExcludedSubtree(n) == \E e \in excludeAttr : n \in {e} \cup Descendants(e)

\* The node an identifier of the recorder stands for.
NodeOfId(id) == CHOOSE n \in Nodes : nodeIdMap[n] = id

RECURSIVE FilteredTree(_)
\* The tree of n with every excluded subtree left out, children in document order.
FilteredTree(n) ==
    IF InExcludedSubtree(n) THEN NullNode
    ELSE IF NodeType(n) # "ELEMENT_NODE"
    THEN [type |-> NodeType(n), name |-> NodeName(n), text |-> textContent[n]]
    ELSE LET kept == SelectSeq(childNodes[n], LAMBDA c : ~InExcludedSubtree(c))
         IN WithChildren(SerializeElement(n),
                         [i \in 1..Len(kept) |-> FilteredTree(kept[i])])

\* C9: no structural-mutation event of processMutations has its target in an
\* excluded subtree, and none carries a node of an excluded subtree among its
\* added nodes, its removed-node identifiers or inside an added node's
\* serialized content.
C9_MutationEventsOmitExcluded ==
    domOp = "processMutations" =>
        \A i \in 1..Len(emitted) :
            LET ev == emitted[i]
            IN  /\ ~InExcludedSubtree(NodeOfId(ev.targetId))
                /\ ev.mutationType = "CHILD_LIST" =>
                      /\ \A j \in 1..Len(ev.addedNodes) :
                            LET added == NodeOfId(ev.addedNodes[j].id)
                            IN  /\ ~InExcludedSubtree(added)
                                /\ ev.addedNodes[j].node = FilteredTree(added)
                      /\ \A j \in 1..Len(ev.removedNodes) :
                            ~InExcludedSubtree(NodeOfId(ev.removedNodes[j]))

\* C10: the tree of the structural-snapshot event holds no element with the
\* exclude attribute and no descendant of one, and holds every other node of
\* the document, children in document order.
C10_SnapshotOmitsExcluded ==
    domOp = "captureSnapshot" => emitted[1].html = FilteredTree(Root)

C10_Witness ==
    /\ domOp = "captureSnapshot"
    /\ \E e \in excludeAttr : e \in Descendants(Root) /\ Descendants(e) # {}
    /\ emitted[1].html.type # "null"
    /\ emitted[1].html.children # << >>

\* ------------------------------------------------- form and pointer watchers
ListenerOps == {"input", "change", "focus", "blur", "click"}

\* C11: a click, input, change, focus or blur whose target is inside an excluded
\* subtree (the target or an ancestor carries the exclude attribute) produces no
\* event from the pointer watcher or the form watcher.
C11_ExcludedTargetsSilent ==
    (domOp \in ListenerOps /\ InExcludedSubtree(eventTarget)) => emitted = << >>

C11_Witness ==
    /\ domOp = "input"
    /\ eventTarget = FieldNode
    /\ FieldNode \notin excludeAttr
    /\ 2 \in excludeAttr
    /\ field.tagName = "INPUT"
    /\ fieldValue # << >>
    /\ emitted = << >>

\* The first-match order of the masking rule as stated: maskAllInputs, then the
\* explicit mask attribute, then the sensitive types and patterns under
\* maskSensitiveInputs.
StatedShouldMask(element) ==
    \/ privacy.maskAllInputs
    \/ element.mask
    \/ /\ privacy.maskSensitiveInputs
       /\ \/ element.tagName = "INPUT" /\ element.type \in SensitiveInputTypes
          \/ element.tagName = "INPUT" /\ \E t \in SensitiveInputTypes :
                                             Includes(element.autocomplete, t)
          \/ \E pattern \in SensitiveNamePatterns :
                \/ PatternTest(pattern, element.name)
                \/ PatternTest(pattern, element.id)
                \/ PatternTest(pattern, element.placeholder)

\* C12: shouldMask follows the stated first-match order for every combination of
\* configuration and element; the masked flag of an input event is its result.
C12_ShouldMaskFollowsOrder ==
    (domOp = "input" /\ emitted # << >>)
        => emitted[1].masked = StatedShouldMask(Element(eventTarget))

\* A string of n mask characters.
Stars(n) == [i \in 1..n |-> "*"]

\* C13: every form-input event that carries a value for an element shouldMask
\* would mask carries, in place of the real value, min(length, 20) mask
\* characters, on the input path and on the change path alike.
C13_MaskedValueEverywhere ==
    (domOp \in {"input", "change"} /\ ShouldMask(Element(eventTarget))) =>
        \A i \in 1..Len(emitted) :
            "value" \in DOMAIN emitted[i] =>
                emitted[i].value = Stars(Min(Len(ElementValue(eventTarget)), MaskLimit))

RECURSIVE ValuesIn(_)
\* The live values a serialized tree carries.
ValuesIn(tree) ==
    (IF "value" \in DOMAIN tree THEN {tree.value} ELSE {})
        \cup (IF "children" \in DOMAIN tree
              THEN UNION {ValuesIn(tree.children[i]) : i \in 1..Len(tree.children)}
              ELSE {})

\* C14: the live value of an input, textarea or select captured by the node
\* serializer goes through the same masking as live input events: for a field
\* shouldMask would mask, the serialized value is the masked string.
C14_SerializedValueMasked ==
    (domOp = "captureSnapshot" /\ ShouldMask(field)) =>
        ValuesIn(emitted[1].html) \subseteq {Stars(Min(Len(fieldValue), MaskLimit))}

\* ------------------------------------------------------- node identifiers
\* The identifiers the recorder has assigned.
AssignedIds == {nodeIdMap[n] : n \in Nodes} \ {0}

\* C15: within one recorder's lifetime getNodeId gives a node the same integer
\* on every call, different nodes never share an integer, identifiers are
\* handed out in increasing order from 1 without gaps, and an identifier once
\* assigned is never given to another node.
C15_NodeIdsStableUnique ==
    /\ [](/\ \A n, m \in Nodes :
                (nodeIdMap[n] # 0 /\ nodeIdMap[n] = nodeIdMap[m]) => n = m
          /\ AssignedIds = 1..(nextNodeId - 1))
    /\ [][/\ \A n \in Nodes : nodeIdMap[n] # 0 => nodeIdMap'[n] = nodeIdMap[n]
          /\ \A n \in Nodes : (nodeIdMap[n] = 0 /\ nodeIdMap'[n] # 0) =>
                                  nodeIdMap'[n] >= nextNodeId
          /\ nextNodeId' >= nextNodeId]_vars

C15_Witness ==
    /\ domOp = "processMutations"
    /\ Len(emitted) = 2
    /\ emitted[1].targetId = emitted[2].targetId
    /\ Cardinality(AssignedIds) >= 3
    /\ nextNodeId = Cardinality(AssignedIds) + 1

\* ------------------------------------------------------------ collector
tables == << visitors, sessions, eventRows >>

\* C16: after any sequence of committed storeEvents calls the store holds
\* exactly one session row per sessionId, whose eventCount equals the number of
\* events of all committed batches for the id and the number of stored event
\* entries of the session.
C16_OneRowCountsAllEvents ==
    \A sid \in SessionIds :
        /\ Cardinality(SessionRows(sid)) <= 1
        /\ sid \notin deleteCalled =>
              IF committedTotal[sid] = 0
              THEN SessionRows(sid) = {} /\ VisibleEventRows(sid) = {}
              ELSE /\ \E r \in sessions : r.sid = sid /\ r.eventCount = committedTotal[sid]
                   /\ Cardinality(VisibleEventRows(sid)) = committedTotal[sid]

C16_Witness ==
    /\ Cardinality(committedCalls) = 2
    /\ committedTotal[1] = 3
    /\ \E r \in sessions : r.sid = 1 /\ r.eventCount = 3
    /\ Cardinality(sessions) = 1
    /\ Cardinality(eventRows) = 3

\* C17: storeEvents is all-or-nothing: a call that fails at any step leaves
\* the visitors, sessions and events tables as they are and answers with the
\* error; nothing a transaction wrote is visible before its COMMIT, and no row
\* of a call that did not commit is ever stored.
C17_StoreEventsAllOrNothing ==
    /\ [](\A r \in eventRows : r.call \in committedCalls)
    /\ [][\A c \in Connections :
            /\ (tx[c].pc # "idle" /\ tx'[c].pc = "idle" /\ tx'[c].error # "none") =>
                  (UNCHANGED tables /\ tx'[c].resp.status = 500)
            /\ (tx[c].pc \notin {"counted", "deleted"} /\ tx'[c] # tx[c]) =>
                  UNCHANGED tables]_vars

C17_Witness ==
    \E c \in Connections :
        /\ tx[c].pc = "idle"
        /\ tx[c].error = "fault"
        /\ tx[c].resp = [op |-> "postEvents", status |-> 500, eventsReceived |-> 0,
                         call |-> 1]
        /\ tx[c].inserted = 2
        /\ sessions = {} /\ eventRows = {} /\ \A f \in Fingerprints : visitors[f] = 0

\* C18: postEvents with a missing sessionId, a missing events field or events
\* that is not an array answers 400 and never calls the store; a store failure
\* during a valid request answers 500; a successful request answers 200 with
\* eventsReceived equal to the number of events in the batch.
C18_PostEventsAnswers ==
    \A c \in Connections :
        LET malformed == tx[c].body.sessionId = 0 \/ tx[c].body.events # "array"
            r == tx[c].resp
        IN  /\ (tx[c].op = "storeEvents" /\ tx[c].pc # "idle") => ~malformed
            /\ r.op = "postEvents" =>
                  /\ malformed => (r.status = 400 /\ r.call \notin committedCalls)
                  /\ ~malformed => r.status \in {200, 500}
                  /\ r.status = 500 => (tx[c].error # "none" /\ r.call \notin committedCalls)
                  /\ r.status = 200 => /\ r.eventsReceived = tx[c].body.length
                                       /\ r.call \in committedCalls
                                       /\ tx[c].error = "none"
            /\ (malformed /\ r.op = "postEvents") =>
                  \A row \in eventRows : row.call # r.call

C18_Witness ==
    \E c \in Connections :
        /\ tx[c].resp.op = "postEvents" /\ tx[c].resp.status = 400
        /\ tx[c].body.sessionId # 0 /\ tx[c].body.events = "notArray"
        /\ tables = << [f \in Fingerprints |-> 0], {}, {} >>

\* C19: for any interleaving of concurrent storeEvents calls for the same
\* sessionId, two first batches for an unknown id included, the outcome is that
\* of running the calls one after another: every call's events are appended,
\* so no call fails unless one of its statements meets a fault of the database.
C19_ConcurrentAppendsSerialize ==
    \A c \in Connections :
        (tx[c].resp.op = "postEvents" /\ tx[c].resp.status = 500) => tx[c].error = "fault"

UpdatedAfter(t) == {s \in sessions : s.updatedAt > t}
UpdatedSince(t) == {s \in sessions : s.updatedAt >= t}

\* C22: listSessions({limit, offset}) returns total, the number of stored
\* sessions, and a page of stored sessions, each once, most recently updated
\* first: the page holds the sessions from place offset + 1 on of that order,
\* at most limit of them.
C22_ListSessionsPage ==
    reply.op = "listSessions" =>
        LET page == reply.sessions
            total == Cardinality(sessions)
            rest == IF total > reply.offset THEN total - reply.offset ELSE 0
        IN  /\ reply.status = 200
            /\ reply.total = total
            /\ Len(page) = Min(reply.limit, rest)
            /\ \A i \in 1..Len(page) :
                  /\ \E s \in sessions : page[i] = SessionSummary(s)
                  /\ Cardinality(UpdatedAfter(page[i].updatedAt)) <= reply.offset + i - 1
                  /\ Cardinality(UpdatedSince(page[i].updatedAt)) >= reply.offset + i
            /\ \A i, j \in 1..Len(page) :
                  i < j => /\ page[i].updatedAt >= page[j].updatedAt
                           /\ page[i].sessionId # page[j].sessionId

\* Two sessions of different updatedAt are stored and listSessions({limit: 1,
\* offset: 0}) has returned the one updated later.
C22_Witness ==
    /\ reply.op = "listSessions" /\ reply.limit = 1 /\ reply.offset = 0
    /\ Cardinality(sessions) = 2
    /\ Len(reply.sessions) = 1
    /\ \E s \in sessions : s.updatedAt < reply.sessions[1].updatedAt

\* Event a comes before event b in the log of a session: by timestamp, and
\* among equal timestamps by the order of appending (calls are numbered as
\* they arrive, data is << call, place in the batch >>).
LogBefore(a, b) ==
    \/ a.timestamp < b.timestamp
    \/ /\ a.timestamp = b.timestamp
       /\ \/ a.data[1] < b.data[1]
          \/ a.data[1] = b.data[1] /\ a.data[2] < b.data[2]

\* C23: getSession(id) answers not-found for an id without a session, and for
\* a stored session returns exactly the events appended for id, each once,
\* ordered by timestamp and, among equal timestamps, in the order they were
\* appended.
C23_GetSessionOrderedLog ==
    reply.op = "getSession" =>
        IF SessionRows(reply.sid) = {}
        THEN reply.status = 404
        ELSE /\ reply.status = 200
             /\ Range(reply.events) = {EventOut(e) : e \in VisibleEventRows(reply.sid)}
             /\ Len(reply.events) = Cardinality(VisibleEventRows(reply.sid))
             /\ \A i, j \in 1..Len(reply.events) :
                   i < j => LogBefore(reply.events[i], reply.events[j])

\* ------------------------------------------------------ navigation watcher
\* C24: when the URL changes to an excluded page while the navigation watcher
\* is started, the watcher emits no event and its current URL advances to the
\* new URL; so the next change to a page that is not excluded is reported
\* with from equal to the excluded URL.
C24_ExcludedUrlAdvancesBookkeeping ==
    [][(navRecording /\ url' # url) =>
          /\ IsExcludedPage(url') =>
                (emitted' = << >> /\ navCurrentUrl' = url')
          /\ (IsExcludedPage(url) /\ ~IsExcludedPage(url')) =>
                (emitted' # << >> /\ emitted'[1].from = url)]_vars

\* C25: a handler wrapped by throttle(fn, delay). A call that arrives when at
\* least delay has passed since the last emission emits at once, with its own
\* arguments, and leaves no timer behind. A call inside the window emits nothing:
\* the first one sets one timer for the end of the window (last emission + delay),
\* the others leave that timer alone. A timer goes away only together with exactly
\* one emission, never before the end of its window, and the emission opens the
\* next window. At no time is more than one timer pending.
C25_ThrottleLeadingAndOneTrailing ==
    /\ [](Cardinality(timers) <= 1)
    /\ [][/\ (throttledCalls' = throttledCalls + 1) =>
                IF clock - lastCall >= throttleDelay
                THEN /\ emitted' = Emission(throttledCalls')
                     /\ lastCall' = clock
                     /\ timers' = {}
                ELSE /\ emitted' = << >>
                     /\ lastCall' = lastCall
                     /\ IF timers = {}
                        THEN \E t \in timers' :
                                /\ timers' = {t}
                                /\ t.due = lastCall + throttleDelay
                        ELSE timers' = timers
          /\ \A t \in timers \ timers' :
                /\ clock >= t.due
                /\ Len(emitted') = 1
                /\ lastCall' = clock]_vars

\* Two calls arrived inside the window opened by the first call, and the one timer
\* they set has run: a single trailing emission, nothing left pending.
C25_Witness ==
    /\ domOp = "timeout"
    /\ throttledCalls = 3
    /\ Len(emitted) = 1
    /\ emitted[1].args = 2
    /\ timers = {}

\* C26: every event accepted by handleEvent is eventually in a batch the endpoint
\* acknowledged with success, when the flush timer and the endpoint are fair and
\* the endpoint fails only finitely often.
C26_AcceptedEventuallyDelivered ==
    \A n \in 1..MaxEvents : (n < nextSeq) ~> (n \in delivered)

\* C27: round trip. The tree rebuilt from the snapshot event and every later
\* mutation event, applied in order, equals the live document (tag names,
\* attributes, text, child order) once every queued record has been handled.
\* Stated for the moments when no element carries the exclude attribute, so that
\* every subtree of the document counts.
C27_RoundTripRebuildsDocument ==
    (observer /\ mutationRecords = << >> /\ excludeAttr = {}) =>
        WithoutIds(replica) = SerializeNode(Root, {})

\* The records of a callback that processMutations does not skip.
Handled(records) == SelectSeq(records, LAMBDA m : ~SkipsMutation(m))

\* C28: in every run of the structure watcher's callback, no exception leaves the
\* callback, and a mutation event is emitted for every record handled other than
\* the one whose handling threw: at most one event is missing.
C28_ThrowStaysInsideCallback ==
    [][(mutationRecords # << >> /\ mutationRecords' = << >>) =>
          /\ domOp' # "uncaught exception"
          /\ Len(emitted') >= Len(Handled(mutationRecords)) - 1]_vars

\* C29: handleEvent, while recording, appends the event at the tail of the queue
\* and, when the queue is then at least batchSize long, flushes within the same
\* call; a flush takes the first min(queue length, batchSize) events off the head
\* and posts them as one batch in that order, the rest staying queued in order; a
\* flush of an empty queue posts nothing.
C29_AppendAtTailFlushFromHead ==
    [][/\ (ret'.op = "handleEvent" /\ isRecording) =>
              LET ev == [n |-> nextSeq, type |-> events'[Len(events')].type,
                         sessionId |-> sessionId]
                  q == Append(sendQueue, ev)
                  k == Min(Len(q), config.batchSize)
              IN  /\ events' = Append(events, ev)
                  /\ IF Len(q) >= config.batchSize
                     THEN /\ sendQueue' = SubSeq(q, k + 1, Len(q))
                          /\ inflight' = inflight \cup
                                 {[batch |-> SubSeq(q, 1, k), sessionId |-> sessionId]}
                     ELSE /\ sendQueue' = q
                          /\ inflight' = inflight
       /\ (ret'.op \in {"timerFlush", "unloadFlush"}) =>
              LET k == Min(Len(sendQueue), config.batchSize)
              IN  IF sendQueue = << >>
                  THEN sendQueue' = << >> /\ inflight' = inflight
                  ELSE /\ sendQueue' = SubSeq(sendQueue, k + 1, Len(sendQueue))
                       /\ inflight' = inflight \cup
                              {[batch |-> SubSeq(sendQueue, 1, k),
                                sessionId |-> sessionId]}]_vars

\* A timer flush found more than batchSize events queued: it posted the head and
\* left the rest.
C29_Witness ==
    /\ ret.op = "timerFlush"
    /\ sendQueue # << >>
    /\ \E d \in inflight :
          /\ Len(d.batch) = config.batchSize
          /\ d.batch[Len(d.batch)].n < sendQueue[1].n

C31_SnapshotBeforeMutations ==
    /\ events # << >> => events[1].type = "session_start"
    /\ \A i \in 1..Len(events) :
          /\ events[i].type = "session_start" =>
                (i < Len(events) /\ events[i + 1].type = "dom_snapshot")
          /\ events[i].type = "dom_snapshot" =>
                (i > 1 /\ events[i - 1].type = "session_start")
          /\ events[i].type = "dom_mutation" =>
                \E j \in 1..(i - 1) :
                    /\ events[j].type = "dom_snapshot"
                    /\ \A k \in (j + 1)..i : events[k].type # "session_start"

\* A structural mutation was recorded after the three events of a start().
C31_Witness ==
    /\ Len(events) >= 4
    /\ events[1].type = "session_start"
    /\ events[2].type = "dom_snapshot"
    /\ events[4].type = "dom_mutation"

\* C32: while the navigation watcher is started, every pushState, replaceState,
\* popstate or hashchange that changes the URL to a non-excluded one hands exactly
\* one page-transition event to onEvent, from the URL before the change to the new
\* one, whether or not the URL before was excluded; one that leaves the URL as it
\* was hands over nothing. Stated from the first recordPageLoad() on, which
\* start() of the Webvisor calls in the same turn as the watcher's start().
C32_TransitionPerUrlChange ==
    [][(navRecording /\ navCurrentUrl # "" /\ domOp' \in Triggers) =>
          IF url' = url THEN emitted' = << >>
          ELSE ~IsExcludedPage(url') =>
                  emitted' = << [type |-> "page_transition", trigger |-> domOp',
                                 from |-> url, to |-> url'] >>]_vars

FileAppendKeepsFirstBatch ==
    [][\A k \in 1..Len(fileOps) :
          LET path == GetSessionPath(fileOps[k].sessionId)
          IN (/\ fileOps[k].pc = "writing" /\ fileOps'[k].pc = "done"
              /\ files[path] # NoFile /\ fileOps[k].read = files[path])
             => /\ files'[path] = [files[path] EXCEPT
                                      !.events = @ \o fileOps[k].events,
                                      !.updatedAt = fileOps[k].session.updatedAt]
                /\ files'[path].updatedAt >= files[path].updatedAt
                /\ \A q \in FilePaths \ {path} : files'[q] = files[q]]_vars

\* C34: visitors holds one visit_count per fingerprint (none is 0); a step in
\* which storeEvents calls commit raises the visit_count of each fingerprint
\* by the number of those calls that carried it, so from 0 to 1 for the first
\* batch and by exactly 1 for each later one, and every other step (a
\* rollback, a deleteSession, a statement of an open transaction) changes no
\* visit_count.
C34_VisitCountCountsCommittedBatches ==
    [][\A f \in Fingerprints :
          visitors'[f] = visitors[f]
              + Cardinality({c \in Connections :
                                /\ tx[c].op = "storeEvents" /\ tx[c].pc # "idle"
                                /\ tx'[c].pc = "idle" /\ tx'[c].resp.status = 200
                                /\ tx[c].fp = f})]_vars

\* Both calls of a behaviour were batches with the same fingerprint and both
\* have committed.
C34_Witness ==
    \E f \in Fingerprints :
        /\ visitors[f] = 2
        /\ Cardinality(committedCalls) = 2

\* C35: in every state of the database every row of events has the session_id
\* of a row of sessions, so no event is stored without its session and none
\* of a deleted session remains.
C35_EveryEventHasItsSession ==
    \A e \in eventRows : SessionRows(e.sid) # {}

\* C36: when two storeEvents calls of the SessionStore for the same sessionId
\* overlapped and both have returned, and no other call was made for that
\* file, the stored session holds every event of both batches exactly once
\* and the events of each batch in their order.
C36_OverlappingAppendsBothKept ==
    \A j, k \in 1..Len(fileOps) :
        (/\ j < k /\ j \in fileOps[k].during
         /\ fileOps[j].op = "storeEvents" /\ fileOps[k].op = "storeEvents"
         /\ fileOps[j].sessionId = fileOps[k].sessionId
         /\ fileOps[j].pc = "done" /\ fileOps[k].pc = "done"
         /\ \A i \in 1..Len(fileOps) \ {j, k} :
                GetSessionPath(fileOps[i].sessionId)
                    # GetSessionPath(fileOps[j].sessionId))
        => LET stored == FileGetSession(fileOps[j].sessionId).events
               At(e) == {i \in 1..Len(stored) : stored[i] = e}
           IN \A c \in {j, k} :
                 /\ \A n \in 1..Len(fileOps[c].events) :
                        Cardinality(At(fileOps[c].events[n])) = 1
                 /\ \A m, n \in 1..Len(fileOps[c].events) :
                        m < n => \A a \in At(fileOps[c].events[m]),
                                    b \in At(fileOps[c].events[n]) : a < b

\* C40: a step of a storeEvents or deleteSession call of the SessionStore
\* changes what getSession returns only for the sessionId of that call: for
\* every other sessionId, whatever its characters, getSession returns what it
\* returned before.
C40_OtherSessionsUntouched ==
    [][\A id \in FileSessionIds :
          FileGetSession(id)' # FileGetSession(id)
              => \A k \in 1..Len(fileOps') :
                    (k > Len(fileOps) \/ fileOps'[k].pc # fileOps[k].pc)
                        => fileOps'[k].sessionId = id]_vars

\* C37: every event of a batch that has been posted carries the sessionId of
\* the envelope it was posted in.
C37_BatchEventsCarryEnvelopeSession ==
    \A d \in inflight : \A e \in Range(d.batch) : e.sessionId = d.sessionId

\* C38: the batch timer exists exactly when the instance is recording (it is
\* one timer or none); while the instance is stopped no step adds to the
\* recorded event list, a listener or a trailing timeout of the pointer
\* watcher left over from before the stop changes neither the pending queue
\* nor what is posted, and no flush of the periodic timer runs.
C38_StoppedInstanceTakesNothing ==
    /\ [](batchTimer = isRecording)
    /\ [][(~isRecording /\ ~isRecording')
             => /\ events' = events
                /\ ret'.op \in {"pointerEvent", "trailingTimeout", "handleEvent"}
                      => sendQueue' = sendQueue /\ inflight' = inflight
                /\ ret'.op # "timerFlush"]_vars

\* stop() has been called, and a trailing timeout set before it has run since.
C38_Witness ==
    /\ ~isRecording
    /\ recorders = "stopped"
    /\ ret.op = "trailingTimeout"

\* C39: every event handleEvent has accepted is in exactly one place: once in
\* the pending queue, or once in one batch in flight, or among the events of
\* the batches acknowledged with success; so none is dropped, none is held
\* twice, and none that was acknowledged is queued or posted again.
C39_AcceptedEventInOnePlace ==
    \A n \in 1..(nextSeq - 1) :
        Cardinality({i \in 1..Len(sendQueue) : sendQueue[i].n = n})
            + Cardinality({<< d, i >> \in inflight \X (1..MaxBatch) :
                              i <= Len(d.batch) /\ d.batch[i].n = n})
            + (IF n \in delivered THEN 1 ELSE 0)
          = 1

\* Events are in all three places at once after a delivery has failed and its
\* batch was queued again.
C39_Witness ==
    /\ failures > 0
    /\ sendQueue # << >>
    /\ inflight # {}
    /\ delivered # {}

====
